---- MODULE Spec2Model ----
(***************************************************************************)
(* A model of the coroutine runtime of coroutine_http_server:              *)
(*   lib/include/task.hpp   Promise, Task, TimedPromise, TimedScheduler,   *)
(*                          when_all, when_any, run_task                   *)
(*   lib/include/epoll.hpp  EpollFilePromise, EpollFileAwaiter,            *)
(*                          EpollScheduler                                 *)
(*   example/server_epoll_coro.cpp  AsyncLoop                              *)
(*                                                                         *)
(* Coroutine frames are records; the body of a user coroutine is a script  *)
(* (a sequence of instructions) drawn in Init from a bounded set of        *)
(* programs.  Execution is small-step: `cur' is the coroutine that runs,    *)
(* `nstack' the native activations of await_suspend that called resume(),   *)
(* `mpc' the position of the driver (run_task / AsyncLoop::run and the two  *)
(* schedulers' run()).                                                     *)
(***************************************************************************)
EXTENDS Integers, Sequences, FiniteSets, TLC

\* ---------------------------------------------------------------- bounds
MaxFrames == 12          \* coroutine frames one program may allocate
MaxTime   == 3           \* the clock is cut off here
MaxDelay  == 2           \* sleep durations are drawn from 0..MaxDelay
MaxClients == 2          \* connections made to the server

FDs      == {1, 2}
Listen   == 1            \* the server's listening socket
AllFds   == FDs \cup {Listen} \cup {1 + c : c \in 1..MaxClients}
Values   == {1, 2}
Excs     == {"e1", "e2"}
SysErr   == "epoll_ctl"  \* the runtime_error THROW_SYSCALL("epoll_ctl") builds

VARIABLES
  fr,              \* FrameIds -> frame record
  cur,             \* the running coroutine, 0 when native code runs
  nstack,          \* native activations of When{All,Any}Awaiter::await_suspend
  mpc,             \* position of the driver
  mode,            \* which driver main uses
  timeout,         \* AsyncLoop::run: the optional returned by timed_sched_.run()
  ebuf,            \* EpollScheduler::run: the events epoll_wait reported
  ei,              \* EpollScheduler::run: loop index i
  timed_coros,     \* TimedScheduler::timed_coros_
  kernel,          \* the epoll interest list: fd -> [ptr, events]
  registered_cnt,  \* EpollScheduler::registered_cnt_
  now,             \* Clock::now()
  flip,            \* which way frame addresses are ordered in this run
  ub,              \* "none", or the undefined behaviour / abort that ended the run
  outcome,         \* what run_task handed to its caller
  hist,            \* history of scheduler and awaiter events (observation only)
  io,              \* a buffered stream over one fd (AsyncIStreamBase / AsyncOStreamBase)
  net,             \* the server's clients: when each connects, what it asks for
  spawned_tasks,   \* server_epoll_coro.cpp: the tasks spawn_task keeps alive
  files,           \* AsyncFile wrappers and the fds they were given
  http,            \* an HTTPRequest, its bytes on the wire and what was parsed
  router           \* an HTTPRouter: its trie, the routes registered, the last call

vars == <<fr, cur, nstack, mpc, mode, timeout, ebuf, ei, timed_coros, kernel,
          registered_cnt, now, flip, ub, outcome, hist, io, files, http, router, net, spawned_tasks>>

\* ---------------------------------------------------------------- frames
\* The frames of a run: MaxFrames for a program; for the server what its tasks
\* allocate: main's, a socket_accept and its fd wait for each client and one
\* more that waits for ever, a handler with its two fd waits, its route and
\* the route's sleep for each client.
ServerFrames == 1 + 2 * (MaxClients + 1) + 5 * MaxClients

FrameIds == DOMAIN fr

InvalidIndex == -1       \* WhenAnyTaskGroup::invalid_index

FreeFrame ==
  [kind |-> "free", st |-> "none", pc |-> 1, ph |-> 0, script |-> <<>>,
   prev |-> 0, res |-> <<"empty">>, exit |-> <<"none">>,
   locals |-> <<>>, temps |-> <<>>, acc |-> <<"none">>,
   expire |-> 0, tree |-> FALSE,
   awaiter |-> "null", fd |-> 0, events |-> {}, resume_events |-> {},
   count |-> 0, gexc |-> <<"none">>, gindex |-> InvalidIndex, gres |-> <<>>,
   tasks |-> <<>>, inputs |-> <<>>, grp |-> 0, input |-> 0, idx |-> 0,
   void |-> FALSE, resumed |-> 0, from |-> 0, got |-> <<0, <<"none">>>>,
   at |-> 0, linked |-> 0]

\* A machine: the part of the state that coroutine steps and destructors change.
Machine ==
  [fr |-> fr, cur |-> cur, timed |-> timed_coros, kernel |-> kernel,
   cnt |-> registered_cnt, ub |-> ub, hist |-> hist, nstack |-> nstack,
   now |-> now]

Commit(M) ==
  /\ fr' = M.fr
  /\ cur' = IF M.ub = "none" THEN M.cur ELSE 0
  /\ timed_coros' = M.timed
  /\ kernel' = M.kernel
  /\ registered_cnt' = M.cnt
  /\ ub' = M.ub
  /\ hist' = M.hist
  /\ nstack' = M.nstack

NoEntry == [ptr |-> 0, events |-> {}]

\* Frame ids are handed out in increasing order and never reused.
FreeIds(M) == {f \in FrameIds : M.fr[f].kind = "free"}
FirstFree(M) == CHOOSE f \in FreeIds(M) : \A g \in FreeIds(M) : f <= g
HasFree(M, n) == Cardinality(FreeIds(M)) >= n

NewFrame(M, rec) == [M EXCEPT !.fr[FirstFree(M)] = rec]

\* ---------------------------------------------------------------- promise
\* PromiseReturnYield::return_value stores the value; the void specialisation's
\* return_void stores nothing.
ReturnValue(old, v) == IF v[1] = "void" THEN old ELSE <<"value", v>>

\* Promise::unhandled_exception stores the current exception.
UnhandledException(e) == <<"exc", e>>

\* result() that returns normally where it should rethrow the stored exception.
Result_NoRethrow(res, isvoid) ==
  IF res[1] = "exc" \/ isvoid THEN <<"ret", <<"void">>>>
  ELSE IF res[1] = "value" THEN <<"ret", res[2]>>
  ELSE <<"throw", "not_set">>

\* Promise<T>::result(): rethrow a stored exception, else return the stored
\* value, else fail with "The value is not set".  For T = void the value arm is
\* compiled out and the call returns.
Result(res, isvoid) ==
  IF res[1] = "exc" THEN <<"throw", res[2]>>
  ELSE IF isvoid THEN <<"ret", <<"void">>>>
  ELSE IF res[1] = "value" THEN <<"ret", res[2]>>
  ELSE <<"throw", "not_set">>

\* ---------------------------------------------------------------- resume
\* h.resume() and symmetric transfer to h.  Handle 0 is std::noop_coroutine():
\* control returns to the native code that called resume().  Resuming a frame
\* that is not suspended (at its final suspend point, or destroyed) is
\* undefined behaviour and ends the run.
Transfer(M, h) ==
  IF h = 0 THEN [M EXCEPT !.cur = 0]
  ELSE IF M.fr[h].st \in {"created", "suspended"}
       THEN [M EXCEPT !.cur = h, !.fr[h].st = "running",
                      !.fr[h].resumed = @ + 1]
       ELSE [M EXCEPT !.cur = 0, !.ub = "resume_" \o M.fr[h].st,
                      !.hist.badResume = h]

\* ---------------------------------------------------------------- destroy
\* remove_listener that forgets --registered_cnt_.
remove_listener_NoDecrement(M, f) ==
  LET fd == M.fr[f].fd IN
  IF M.kernel[fd].ptr = 0
  THEN [M EXCEPT !.ub = "terminate_epoll_ctl_del"]
  ELSE [M EXCEPT !.kernel[fd] = NoEntry, !.hist.dels = @ + 1]

\* EpollScheduler::remove_listener: EPOLL_CTL_DEL on the awaiter's fd, then
\* --registered_cnt_.  CHECK_SYSCALL throws when the kernel has no entry for
\* the fd; the caller is a destructor, so the process terminates.
remove_listener(M, f) ==
  LET fd == M.fr[f].fd IN
  IF M.kernel[fd].ptr = 0
  THEN [M EXCEPT !.ub = "terminate_epoll_ctl_del"]
  ELSE [M EXCEPT !.kernel[fd] = NoEntry, !.cnt = @ - 1,
                 !.hist.dels = @ + 1]

\* ~TimedPromise erases the handle from the tree it points to;
\* ~EpollFilePromise calls remove_listener when awaiter_ is not null.  A
\* wait_file_event frame that never ran has an indeterminate awaiter_.
PromiseDtor(M, f) ==
  LET F == M.fr[f] IN
  IF F.kind = "timed" /\ F.tree
  THEN [M EXCEPT !.timed = @ \ {f}, !.fr[f].tree = FALSE]
  ELSE IF F.kind = "epoll" /\ F.awaiter = "set" THEN remove_listener(M, f)
  ELSE IF F.kind = "epoll" /\ F.awaiter = "garbage"
       THEN [M EXCEPT !.ub = "indeterminate_awaiter"]
  ELSE M

RECURSIVE DestroySeq(_, _), DestroyFrame(_, _)

\* Task::~Task / ReturnPreviousTask::~ReturnPreviousTask: coro_.destroy().
\* The frame's live Task objects go first, latest constructed first, then the
\* promise.
DestroyFrame(M, f) ==
  LET F  == M.fr[f]
      M1 == DestroySeq(M, F.locals \o F.temps)
      M2 == PromiseDtor(M1, f)
  IN IF F.st = "destroyed" THEN [M EXCEPT !.ub = "double_destroy"]
     ELSE [M2 EXCEPT !.fr[f].st = "destroyed", !.fr[f].locals = <<>>,
                     !.fr[f].temps = <<>>]

DestroySeq(M, s) ==
  IF s = <<>> THEN M
  ELSE DestroySeq(DestroyFrame(M, s[Len(s)]), SubSeq(s, 1, Len(s) - 1))

\* End of a full expression: the temporaries of the frame are destroyed.
DropTemps(M, f) ==
  [DestroySeq(M, M.fr[f].temps) EXCEPT !.fr[f].temps = <<>>]

\* Observation only: the time at which a task started by spawn_task completed.
Spawned(M, f) == \E i \in DOMAIN M.hist.spawned : M.hist.spawned[i] = f

\* The body leaves by co_return or by an exception: the promise takes the
\* result, the locals are destroyed, and final_suspend hands control to the
\* continuation (PreviousAwaiter::await_suspend: prev_ or the noop coroutine).
PreviousAwaiter(M, f) == Transfer(M, M.fr[f].prev)

Finish(M, f, res, exit) ==
  LET M1 == DestroySeq(M, M.fr[f].locals \o M.fr[f].temps)
      M2 == [M1 EXCEPT !.fr[f].res = res, !.fr[f].exit = exit,
                       !.fr[f].st = "done", !.fr[f].locals = <<>>,
                       !.fr[f].temps = <<>>,
                       !.fr[f].at = IF Spawned(M, f) THEN M.now ELSE @]
  IN PreviousAwaiter(M2, f)

CoReturn(M, f, v) == Finish(M, f, ReturnValue(M.fr[f].res, v), <<"ret", v>>)
Raise(M, f, e)    == Finish(M, f, UnhandledException(e), <<"throw", e>>)
\* An await_suspend that calls coro_.resume() itself: one more native
\* activation for every task of a chain.
TaskAwaiter_await_suspend_Nested(M, f, c) ==
  Transfer([M EXCEPT !.fr[c].prev = f, !.fr[c].linked = @ + 1,
                     !.fr[f].st = "suspended",
                     !.fr[f].ph = 1, !.fr[f].from = c,
                     !.nstack = Append(@, [g |-> f, i |-> 1, t |-> 0])], c)

\* Task::TaskAwaiter::await_suspend: store the awaiting coroutine as the
\* child's continuation and transfer to the child.
TaskAwaiter_await_suspend(M, f, c) ==
  Transfer([M EXCEPT !.fr[c].prev = f, !.fr[c].linked = @ + 1,
                     !.fr[f].st = "suspended",
                     !.fr[f].ph = 1, !.fr[f].from = c], c)

\* a.await_suspend(std::noop_coroutine()).resume() in run_task / spawn_task:
\* the continuation of the root is the noop coroutine.
TaskAwaiter_await_suspend_root(M) ==
  Transfer([M EXCEPT !.fr[1].prev = 0, !.fr[1].linked = @ + 1], 1)

\* ---------------------------------------------------------------- creation
\* Calling a coroutine allocates its frame and stops at initial_suspend
\* (suspend_always): nothing of the body has run.
NewTask(body) ==
  [FreeFrame EXCEPT !.kind = "task", !.st = "created", !.script = body.code,
                    !.void = body.void]

\* sleep_until(sched, expire)
NewTimed(expire) ==
  [FreeFrame EXCEPT !.kind = "timed", !.st = "created", !.expire = expire,
                    !.void = TRUE]

\* wait_file_event(sched, file, events); EpollFilePromise::awaiter_ has no
\* initialiser, `init' is the value the fresh frame happens to hold.
NewEpoll(fd, ev, init) ==
  [FreeFrame EXCEPT !.kind = "epoll", !.st = "created", !.fd = fd,
                    !.events = ev, !.awaiter = init]

NewOf(M, d, init) ==
  CASE d.k = "task"   -> NewTask(d.body)
    [] d.k = "sleep"  -> NewTimed(M.now + d.d)          \* sleep_for
    [] d.k = "waitfd" -> NewEpoll(d.fd, d.ev, init)

AddTemp(M, f, rec) ==
  [NewFrame(M, rec) EXCEPT !.fr[f].temps = Append(@, FirstFree(M))]

AddLocal(M, f, rec) ==
  [NewFrame(M, rec) EXCEPT !.fr[f].locals = Append(@, FirstFree(M))]

\* The arguments of when_all(...) / when_any(...): a named local of the caller,
\* or a temporary created in the call expression.
RECURSIVE MakeInputs(_, _, _, _, _)
MakeInputs(M, f, descs, ids, init) ==
  IF descs = <<>> THEN [m |-> M, ids |-> ids]
  ELSE LET d == Head(descs) IN
       IF d.k = "local"
       THEN MakeInputs(M, f, Tail(descs), Append(ids, M.fr[f].locals[d.i]), init)
       ELSE MakeInputs(AddTemp(M, f, NewOf(M, d, init)), f, Tail(descs),
                       Append(ids, FirstFree(M)), init)

NewTemps(descs) == Cardinality({i \in 1..Len(descs) : descs[i].k # "local"})

\* when_all(as...) / when_any(as...): the frame of the combining coroutine.
NewWhen(kind, ids) ==
  [FreeFrame EXCEPT !.kind = kind, !.st = "created", !.inputs = ids]

\* ---------------------------------------------------------------- user tasks
Instr(M, f) == M.fr[f].script[M.fr[f].pc]

Last(s) == s[Len(s)]

\* co_return v;
StepRet(M, f) ==
  LET I == Instr(M, f)
      a == M.fr[f].acc
      v == IF I.v[1] # "acc" THEN I.v
           ELSE IF a[1] = "value" THEN a[2] ELSE <<"int", 0>>
  IN CoReturn(M, f, v)

\* throw e;
StepThrow(M, f) == Raise(M, f, Instr(M, f).e)

\* auto t = body();
StepLocal(M, f) ==
  [AddLocal(M, f, NewTask(Instr(M, f).body)) EXCEPT !.fr[f].pc = @ + 1]

\* co_await t;  co_await body();  co_await sleep_for(sched, d);
\* co_await wait_file_event(sched, file, ev);
StepAwait(M, f, init) ==
  LET I == Instr(M, f) IN
  IF I.op = "await_local"
  THEN TaskAwaiter_await_suspend(M, f, M.fr[f].locals[I.i])
  ELSE LET d == CASE I.op = "await"  -> [k |-> "task", body |-> I.body]
                  [] I.op = "sleep"  -> [k |-> "sleep", d |-> I.d]
                  [] I.op = "waitfd" -> [k |-> "waitfd", fd |-> I.fd, ev |-> I.ev]
       IN TaskAwaiter_await_suspend(AddTemp(M, f, NewOf(M, d, init)), f,
                                    FirstFree(M))

\* co_await when_all(a, b, ...);  co_await when_any(a, b, ...);
StepCompose(M, f, init) ==
  LET I  == Instr(M, f)
      R  == MakeInputs(M, f, I.inputs, <<>>, init)
      M1 == AddTemp(R.m, f, NewWhen(I.op, R.ids))
  IN TaskAwaiter_await_suspend(M1, f, FirstFree(R.m))

\* The awaited task completed and resumed this one: TaskAwaiter::await_resume
\* returns coro_.promise().result(); the temporaries of the expression die;
\* an exception is caught by the enclosing try (I.catch) or leaves the body.
Awaited(M, f) ==
  LET I == Instr(M, f) IN
  IF I.op = "await_local" THEN M.fr[f].locals[I.i] ELSE Last(M.fr[f].temps)

StepAwaitResume(M, f) ==
  LET I  == Instr(M, f)
      c  == Awaited(M, f)
      r  == Result(M.fr[c].res, M.fr[c].void)
      M0 == [M EXCEPT !.fr[f].got = <<c, r>>]
      M1 == DropTemps(M0, f)
  IN IF r[1] = "throw" /\ ~I.catch THEN Raise(M0, f, r[2])
     ELSE [M1 EXCEPT !.fr[f].acc = IF r[1] = "throw" THEN <<"caught", r[2]>>
                                   ELSE IF r[2] = <<"void">> THEN @
                                   ELSE <<"value", r[2]>>,
                     !.fr[f].pc = @ + 1, !.fr[f].ph = 0]

\* ---------------------------------------------------------------- sleeping
\* operator< on coroutine_handle<TimedPromise>: by expire_, then by address.
\* Which frame has the lower address is the allocator's choice; `flip' fixes it
\* for one run, from the first time two equal deadlines are compared on.
Address(o, f) == IF o = "desc" THEN 0 - f ELSE f

HandleLess(M, o, a, b) ==
  \/ M.fr[a].expire < M.fr[b].expire
  \/ M.fr[a].expire = M.fr[b].expire /\ Address(o, a) < Address(o, b)

\* A begin() that takes the greatest handle of the set.
Begin_Greatest(M, o) ==
  CHOOSE a \in M.timed : \A b \in M.timed \ {a} : HandleLess(M, o, b, a)

\* timed_coros_.begin()
Begin(M, o) ==
  CHOOSE a \in M.timed : \A b \in M.timed \ {a} : HandleLess(M, o, a, b)

\* The address orders still open when begin() is taken.
Tie(M) == \E a \in M.timed : \E b \in M.timed \ {a} :
            /\ M.fr[a].expire = M.fr[b].expire
            /\ \A c \in M.timed : M.fr[a].expire <= M.fr[c].expire
AddressOrders(M) ==
  IF flip = "unset" /\ Tie(M) THEN {"asc", "desc"} ELSE {flip}

\* SleepAwaiter::await_ready
SleepReady(expire, t) == expire <= t

\* A SleepAwaiter::await_suspend that inserts the handle and leaves tree_ null.
StepTimed_NoBackPointer(M, f) ==
  IF M.fr[f].ph = 0 /\ ~SleepReady(M.fr[f].expire, M.now)
  THEN [M EXCEPT !.timed = @ \cup {f},
                 !.fr[f].st = "suspended", !.fr[f].ph = 1, !.cur = 0]
  ELSE CoReturn(M, f, <<"void">>)

\* The body of sleep_until: co_return co_await SleepAwaiter{expire, sched}.
\* await_suspend stores deadline and tree in the promise, inserts the handle
\* and returns void: control goes back to whoever resumed the chain.
StepTimed(M, f) ==
  IF M.fr[f].ph = 0 /\ ~SleepReady(M.fr[f].expire, M.now)
  THEN [M EXCEPT !.fr[f].tree = TRUE, !.timed = @ \cup {f},
                 !.fr[f].st = "suspended", !.fr[f].ph = 1, !.cur = 0]
  ELSE CoReturn(M, f, <<"void">>)

\* ---------------------------------------------------------------- fd waits
\* epoll_ctl(epoll_, EPOLL_CTL_ADD, fd, &event) fails with EEXIST when the
\* interest list already has the fd.
EpollCtlAddOk(k, fd) == k[fd].ptr = 0

\* EpollScheduler::add_listener
add_listener(M, f) ==
  LET fd == M.fr[f].fd IN
  IF EpollCtlAddOk(M.kernel, fd)
  THEN [ok |-> TRUE,
        m  |-> [M EXCEPT !.kernel[fd] = [ptr |-> f, events |-> M.fr[f].events],
                         !.cnt = @ + 1, !.hist.adds = @ + 1]]
  ELSE [ok |-> FALSE, m |-> M]

\* await_suspend that leaves awaiter_ set when add_listener failed.
EpollFileAwaiter_await_suspend_KeepsAwaiter(M, f) ==
  LET R == add_listener([M EXCEPT !.fr[f].awaiter = "set"], f) IN
  IF R.ok
  THEN [R.m EXCEPT !.fr[f].st = "suspended", !.fr[f].ph = 1, !.cur = 0]
  ELSE Raise([R.m EXCEPT !.hist.failedAdd = @ \cup {f}], f, SysErr)

\* EpollFileAwaiter::await_suspend: set awaiter_, register; on failure reset
\* awaiter_ and throw, which the coroutine sees at its co_await.
EpollFileAwaiter_await_suspend(M, f) ==
  LET R == add_listener([M EXCEPT !.fr[f].awaiter = "set"], f) IN
  IF R.ok
  THEN [R.m EXCEPT !.fr[f].st = "suspended", !.fr[f].ph = 1, !.cur = 0]
  ELSE Raise([R.m EXCEPT !.fr[f].awaiter = "null",
                         !.hist.failedAdd = @ \cup {f}], f, SysErr)

\* The body of wait_file_event: co_return co_await EpollFileAwaiter(...).
\* await_resume returns std::exchange(resume_events_, 0).
StepEpoll(M, f) ==
  IF M.fr[f].ph = 0 THEN EpollFileAwaiter_await_suspend(M, f)
  ELSE CoReturn([M EXCEPT !.fr[f].resume_events = {}], f,
                <<"mask", M.fr[f].resume_events>>)

\* ---------------------------------------------------------------- when_all / when_any
HelperKind(k) == IF k = "when_all" THEN "helper_all" ELSE "helper_any"

NewHelper(k, g, x, i) ==
  [FreeFrame EXCEPT !.kind = HelperKind(k), !.st = "created", !.grp = g,
                    !.input = x, !.idx = i]

RECURSIVE MakeHelpers(_, _, _)
MakeHelpers(M, g, i) ==
  IF i > Len(M.fr[g].inputs) THEN M
  ELSE MakeHelpers(
         [NewFrame(M, NewHelper(M.fr[g].kind, g, M.fr[g].inputs[i], i))
            EXCEPT !.fr[g].locals = Append(@, FirstFree(M)),
                   !.fr[g].tasks  = Append(@, FirstFree(M))],
         g, i + 1)

\* First resume of when_all / when_any: build result, group and one helper per
\* argument, then co_await When{All,Any}Awaiter.  await_suspend runs as native
\* code (an activation on nstack) that resumes tasks_[1..] one by one.
StepWhenStart(M, g) ==
  LET n  == Len(M.fr[g].inputs)
      M1 == MakeHelpers(M, g, 1)
  IN [M1 EXCEPT !.fr[g].count = n,
                !.fr[g].gres = IF M.fr[g].kind = "when_all"
                               THEN [i \in 1..n |-> <<"default">>]
                               ELSE <<"variant", 1, <<"default">>>>,
                !.fr[g].st = "suspended", !.fr[g].ph = 1, !.cur = 0,
                !.nstack = Append(@, [g |-> g, i |-> 2, t |-> 0])]

\* A when_any that cancels the first input when another one has won: the fd
\* wait it is suspended in is taken off the interest list.
StepWhenResume_Cancels(M, g) ==
  LET x  == M.fr[g].inputs[1]
      e  == IF M.fr[x].kind = "epoll" THEN x ELSE M.fr[x].from
      M1 == IF /\ M.fr[g].kind = "when_any" /\ M.fr[g].gindex # 1 /\ e # 0
               /\ M.fr[e].kind = "epoll" /\ M.fr[e].st = "suspended"
               /\ M.kernel[M.fr[e].fd].ptr = e
            THEN remove_listener(M, e) ELSE M
  IN IF M.fr[g].gexc # <<"none">> THEN Raise(M1, g, M.fr[g].gexc[2])
     ELSE CoReturn(M1, g, IF M.fr[g].kind = "when_all"
                            THEN <<"tuple", M.fr[g].gres>> ELSE M.fr[g].gres)

\* await_resume of When{All,Any}Awaiter, then co_return result.
StepWhenResume(M, g) ==
  IF M.fr[g].gexc # <<"none">> THEN Raise(M, g, M.fr[g].gexc[2])
  ELSE CoReturn(M, g, IF M.fr[g].kind = "when_all"
                         THEN <<"tuple", M.fr[g].gres>> ELSE M.fr[g].gres)

\* The loop of When{All,Any}Awaiter::await_suspend.  The awaiter and tasks_
\* live in the frame of the combining coroutine: once that frame has been
\* resumed and has finished, the loop reads freed memory.
AwaitSuspendLoop(M) ==
  LET top == Last(M.nstack)
      g   == top.g
      pop == SubSeq(M.nstack, 1, Len(M.nstack) - 1)
  IN IF M.fr[g].st # "suspended"
     THEN [M EXCEPT !.ub = "await_suspend_after_frame_end",
                    !.hist.badResume = g]
     ELSE IF top.i <= Len(M.fr[g].tasks)
     THEN Transfer([M EXCEPT !.nstack[Len(M.nstack)].i = @ + 1],
                   M.fr[g].tasks[top.i])
     ELSE Transfer([M EXCEPT !.nstack = pop], M.fr[g].tasks[1])

\* co_return h in a ReturnPreviousTask: final_suspend resumes h, or returns to
\* the resumer when h is null.
ReturnPrevious(M, h, target) ==
  Transfer([M EXCEPT !.fr[h].st = "done", !.fr[h].res = <<"value", target>>],
           target)

\* when_all_task that returns group.prev_ whatever count_ has become.
StepHelperAll_NoCount(M, h) ==
  LET g == M.fr[h].grp
      x == M.fr[h].input
      r == Result(M.fr[x].res, M.fr[x].void)
      i == M.fr[h].idx
  IN IF M.fr[h].ph = 0 THEN TaskAwaiter_await_suspend(M, h, x)
     ELSE IF r[1] = "throw"
     THEN ReturnPrevious([M EXCEPT !.fr[g].gexc = <<"exc", r[2]>>], h, g)
     ELSE ReturnPrevious([M EXCEPT !.fr[g].gres[i] =
                                      IF M.fr[x].void THEN @ ELSE r[2],
                                   !.fr[g].count = @ - 1], h, g)

\* when_all_task
StepHelperAll(M, h) ==
  LET g == M.fr[h].grp
      x == M.fr[h].input
      r == Result(M.fr[x].res, M.fr[x].void)
      i == M.fr[h].idx
  IN IF M.fr[h].ph = 0 THEN TaskAwaiter_await_suspend(M, h, x)
     ELSE IF r[1] = "throw"
     THEN ReturnPrevious([M EXCEPT !.fr[g].gexc = <<"exc", r[2]>>], h, g)
     ELSE LET M1 == [M EXCEPT !.fr[g].gres[i] = IF M.fr[x].void THEN @ ELSE r[2],
                              !.fr[g].count = @ - 1]
          IN IF M.fr[g].count = 0 THEN [M EXCEPT !.ub = "assert_count"]
             ELSE ReturnPrevious(M1, h, IF M1.fr[g].count = 0 THEN g ELSE 0)

\* when_any_task that emplaces alternative 0 whatever I is.
StepHelperAny_FirstSlot(M, h) ==
  LET g == M.fr[h].grp
      x == M.fr[h].input
      r == Result(M.fr[x].res, M.fr[x].void)
  IN IF M.fr[h].ph = 0
     THEN IF M.fr[g].gindex # InvalidIndex \/ M.fr[g].gexc # <<"none">>
          THEN ReturnPrevious(M, h, 0)
          ELSE TaskAwaiter_await_suspend(M, h, x)
     ELSE IF r[1] = "throw"
     THEN ReturnPrevious([M EXCEPT !.fr[g].gexc = <<"exc", r[2]>>], h, g)
     ELSE ReturnPrevious([M EXCEPT !.fr[g].gres = <<"variant", 1, r[2]>>,
                                   !.fr[g].gindex = 1], h, g)

\* when_any_task<I>
StepHelperAny(M, h) ==
  LET g == M.fr[h].grp
      x == M.fr[h].input
      r == Result(M.fr[x].res, M.fr[x].void)
      i == M.fr[h].idx
  IN IF M.fr[h].ph = 0
     THEN IF M.fr[g].gindex # InvalidIndex \/ M.fr[g].gexc # <<"none">>
          THEN ReturnPrevious(M, h, 0)
          ELSE TaskAwaiter_await_suspend(M, h, x)
     ELSE IF r[1] = "throw"
     THEN ReturnPrevious([M EXCEPT !.fr[g].gexc = <<"exc", r[2]>>], h, g)
     ELSE ReturnPrevious([M EXCEPT !.fr[g].gres = <<"variant", i, r[2]>>,
                                   !.fr[g].gindex = i], h, g)

\* ---------------------------------------------------------------- programs
\* The instructions of a user coroutine body.
Ret(v)             == [op |-> "ret", v |-> v]
Throw(e)           == [op |-> "throw", e |-> e]
Sleep(d, c)        == [op |-> "sleep", d |-> d, catch |-> c]
WaitFd(fd, ev, c)  == [op |-> "waitfd", fd |-> fd, ev |-> ev, catch |-> c]
Local(b)           == [op |-> "local", body |-> b]
AwaitLocal(i, c)   == [op |-> "await_local", i |-> i, catch |-> c]
Await(b, c)        == [op |-> "await", body |-> b, catch |-> c]
WhenAll(ins, c)    == [op |-> "when_all", inputs |-> ins, catch |-> c]
WhenAny(ins, c)    == [op |-> "when_any", inputs |-> ins, catch |-> c]

Body(void, code)   == [void |-> void, code |-> code]

InLocal(i)      == [k |-> "local", i |-> i]
InTask(b)       == [k |-> "task", body |-> b]
InSleep(d)      == [k |-> "sleep", d |-> d]
InWaitFd(fd, ev) == [k |-> "waitfd", fd |-> fd, ev |-> ev]

EvIn == {"IN"}           \* EPOLLIN

\* What one input task does: return at once, throw at once, sleep and then
\* return or throw, wait for an fd and return (with or without a try around
\* the wait).  Input i returns the value i and throws the exception Exc(i).
Exc(i) == IF i = 1 THEN "e1" ELSE "e2"

Behaviours ==
  {<<"ret">>, <<"throw">>}
    \cup {<<"sleep", d, x>> : d \in 0..MaxDelay, x \in {"ret", "throw"}}
    \cup {<<"waitfd", fd, c>> : fd \in FDs, c \in BOOLEAN}

Leaf(i, b) ==
  CASE b[1] = "ret"    -> Body(FALSE, <<Ret(<<"int", i>>)>>)
    [] b[1] = "throw"  -> Body(FALSE, <<Throw(Exc(i))>>)
    [] b[1] = "sleep"  ->
         Body(FALSE, <<Sleep(b[2], FALSE),
                       IF b[3] = "ret" THEN Ret(<<"int", i>>) ELSE Throw(Exc(i))>>)
    [] b[1] = "waitfd" -> Body(FALSE, <<WaitFd(b[2], EvIn, b[3]), Ret(<<"int", i>>)>>)

\* A task that awaits one sub-task (as the test AwaitThrowingTask does), with
\* the sub-task a leaf or itself a task awaiting a leaf.
ChainBodies ==
  {Body(v, <<Await(Leaf(1, b), c), Ret(IF v THEN <<"void">> ELSE r)>>) :
     v \in BOOLEAN, b \in Behaviours, c \in BOOLEAN,
     r \in {<<"acc">>, <<"int", 2>>}}
  \cup
  {Body(FALSE, <<Await(Body(FALSE, <<Await(Leaf(1, b), FALSE), Ret(<<"acc">>)>>),
                       FALSE), Ret(<<"acc">>)>>) : b \in Behaviours}

\* A task that combines two inputs: temporaries of the call expression (sleeps,
\* fd waits, tasks that finish at once), or named locals as in the tests
\* when_all / when_any, after which it sleeps once more while its locals live.
ComposeOps == {"when_all", "when_any"}

InputDescs(i) ==
  {InTask(Leaf(i, b)) : b \in {<<"ret">>, <<"throw">>}}
    \cup {InSleep(d) : d \in 0..MaxDelay}
    \cup {InWaitFd(fd, EvIn) : fd \in FDs}

ComposeTemps ==
  {Body(FALSE, <<[op |-> o, inputs |-> <<a, b>>, catch |-> FALSE], Ret(<<"acc">>)>>) :
     o \in ComposeOps, a \in InputDescs(1), b \in InputDescs(2)}

ComposeLocals ==
  {Body(FALSE, <<Local(Leaf(1, a)), Local(Leaf(2, b)),
                 [op |-> o, inputs |-> <<InLocal(1), InLocal(2)>>, catch |-> TRUE],
                 Sleep(d, FALSE), Ret(<<"acc">>)>>) :
     o \in ComposeOps, a \in Behaviours, b \in Behaviours, d \in {0, MaxDelay}}

\* A task that awaits a named sub-task a second time after it has completed.
AwaitAgain ==
  {Body(FALSE, <<Local(Leaf(1, b)), AwaitLocal(1, FALSE), AwaitLocal(1, FALSE),
                 Ret(<<"acc">>)>>) : b \in {<<"ret">>, <<"sleep", 1, "ret">>}}

\* A timeout: when_any(op, sleep_for(d)) over a named fd operation op, after
\* which the task goes on (it sleeps once more) while op is still in scope.
Timeouts ==
  {Body(FALSE, <<Local(Leaf(1, <<"waitfd", fd, FALSE>>)),
                 WhenAny(<<InLocal(1), InSleep(d)>>, FALSE),
                 Sleep(1, FALSE), Ret(<<"acc">>)>>) : fd \in FDs, d \in 0..MaxDelay}

Programs ==
  ChainBodies \cup ComposeTemps \cup ComposeLocals \cup AwaitAgain \cup Timeouts

Modes == {"run_task", "drop"}

\* The server of example/server_epoll_coro.cpp.  socket_accept waits until the
\* listening socket is readable and accepts once.  handle_request reads the
\* request from the connection, awaits the route's handler ("/sleep" with d
\* ticks to sleep, or a route that answers at once, d = 0), writes the response
\* and flushes.  main's task accepts and spawns for ever.
EvOut == {"OUT"}         \* EPOLLOUT

socket_accept == Body(FALSE, <<WaitFd(Listen, EvIn, FALSE), [op |-> "accept"],
                               Ret(<<"acc">>)>>)

\* What goes wrong with a connection: nothing, the request is malformed
\* (read_from throws), the peer has hung up (EOF), the route's handler throws,
\* or the write of the response fails.
Failures == {"none", "malformed", "eof", "handler", "write"}

\* A place inside the try block of handle_request where an exception of the
\* stage just passed leaves the block.
Try(stage) == [op |-> "try", stage |-> stage]

handle_request(fd, d, k) ==
  LET x == IF k = "handler" THEN "throw" ELSE "ret" IN
  Body(TRUE, <<WaitFd(fd, EvIn, TRUE), Try("read"),
               Await(Leaf(1, IF d = 0 THEN <<x>> ELSE <<"sleep", d, x>>), TRUE),
               Try("route"),
               WaitFd(fd, EvOut, TRUE), Try("write"), Ret(<<"void">>)>>)

ServerMain == Body(TRUE, <<Await(socket_accept, FALSE), [op |-> "spawn"]>>)

\* Client c connects and sends its request at time arrive[c], the first one as
\* the server starts; route[c] is the d of its request; `accepted' connections
\* have been taken off the listen queue.
Clients == 1..MaxClients

NoNet == [arrive |-> <<>>, route |-> <<>>, accepted |-> 0, fail |-> <<>>,
          closed |-> {}]

\* fail[c] is what goes wrong with connection c; `closed' are the client
\* sockets that have been closed.
NetsWith(F) ==
  {[arrive |-> a, route |-> r, accepted |-> 0, fail |-> k, closed |-> {}] :
     a \in {x \in [Clients -> 0..MaxTime] :
              x[1] = 0 /\ \A c \in Clients : c > 1 => x[c - 1] <= x[c]},
     r \in [Clients -> 0..MaxDelay], k \in [Clients -> F]}

Nets == NetsWith({"none"})

\* ---------------------------------------------------------------- initial state
\* What a variable holds in a run its object takes no part in.
NotUsed == [on |-> FALSE]

None == -1               \* std::nullopt for the timeout

HistInit ==
  [badResume |-> 0, adds |-> 0, dels |-> 0, failedAdd |-> {},
   fired |-> <<>>, batch |-> <<>>, dropped |-> FALSE, schedBad |-> 0,
   reported |-> [f \in FrameIds |-> {}], peek |-> <<"none">>,
   spawned |-> <<>>]

Root == 1

InitWith(p, m) ==
  /\ fr = [f \in 1..(IF m = "server" THEN ServerFrames ELSE MaxFrames) |->
             IF f = Root THEN NewTask(p) ELSE FreeFrame]
  /\ mode = m
  /\ flip = "unset"
  /\ cur = 0
  /\ nstack = <<>>
  /\ mpc = "start"
  /\ timeout = None
  /\ ebuf = <<>>
  /\ ei = 1
  /\ timed_coros = {}
  /\ kernel = [fd \in AllFds |-> NoEntry]
  /\ registered_cnt = 0
  /\ now = 0
  /\ ub = "none"
  /\ outcome = <<"none">>
  /\ hist = HistInit

\* A run is one program under run_task or spawn_task.  No buffered stream and
\* no client takes part in it.
Init ==
  /\ \E p \in Programs, m \in Modes : InitWith(p, m)
  /\ io = [side |-> "off"]
  /\ net = NoNet
  /\ spawned_tasks = <<>>
  /\ files = NotUsed /\ http = NotUsed /\ router = NotUsed

\* A run of the server: main's task under run_task, and the clients.
InitServer ==
  /\ InitWith(ServerMain, "server")
  /\ io = [side |-> "off"]
  /\ net \in Nets
  /\ spawned_tasks = <<>>
  /\ files = NotUsed /\ http = NotUsed /\ router = NotUsed

\* A run of the server in which connections may fail.
InitServerFail ==
  /\ InitWith(ServerMain, "server")
  /\ io = [side |-> "off"]
  /\ net \in NetsWith(Failures)
  /\ spawned_tasks = <<>>
  /\ files = NotUsed /\ http = NotUsed /\ router = NotUsed

\* ---------------------------------------------------------------- coroutine steps
Running(k) == ub = "none" /\ cur # 0 /\ fr[cur].kind = k

CoroVars == <<mpc, mode, timeout, ebuf, ei, now, flip, outcome, io, files, http, router, net,
             spawned_tasks>>

TaskOp(ops) ==
  /\ Running("task")
  /\ fr[cur].ph = 0
  /\ fr[cur].script[fr[cur].pc].op \in ops

TaskReturn ==
  /\ TaskOp({"ret"})
  /\ Commit(StepRet(Machine, cur))
  /\ UNCHANGED CoroVars

TaskThrow ==
  /\ TaskOp({"throw"})
  /\ Commit(StepThrow(Machine, cur))
  /\ UNCHANGED CoroVars

TaskLocal ==
  /\ TaskOp({"local"})
  /\ HasFree(Machine, 1)
  /\ Commit(StepLocal(Machine, cur))
  /\ UNCHANGED CoroVars

\* The value a fresh wait_file_event frame holds in awaiter_.
AwaiterInit == {"null", "garbage"}

TaskAwait ==
  /\ TaskOp({"await", "await_local", "sleep", "waitfd"})
  /\ HasFree(Machine, 1)
  /\ \E init \in (IF fr[cur].script[fr[cur].pc].op = "waitfd"
                  THEN AwaiterInit ELSE {"null"}) :
       Commit(StepAwait(Machine, cur, init))
  /\ UNCHANGED CoroVars

HasWaitFd(I) == \E i \in 1..Len(I.inputs) : I.inputs[i].k = "waitfd"

TaskCompose ==
  /\ TaskOp(ComposeOps)
  /\ HasFree(Machine, 1 + NewTemps(fr[cur].script[fr[cur].pc].inputs))
  /\ \E init \in (IF HasWaitFd(fr[cur].script[fr[cur].pc])
                  THEN AwaiterInit ELSE {"null"}) :
       Commit(StepCompose(Machine, cur, init))
  /\ UNCHANGED CoroVars

TaskAwaitResume ==
  /\ Running("task")
  /\ fr[cur].ph = 1
  /\ Commit(StepAwaitResume(Machine, cur))
  /\ UNCHANGED CoroVars

SleepStep ==
  /\ Running("timed")
  /\ Commit(StepTimed(Machine, cur))
  /\ UNCHANGED CoroVars

WaitFileEventStep ==
  /\ Running("epoll")
  /\ Commit(StepEpoll(Machine, cur))
  /\ UNCHANGED CoroVars

WhenStart ==
  /\ ub = "none" /\ cur # 0 /\ fr[cur].kind \in ComposeOps /\ fr[cur].ph = 0
  /\ HasFree(Machine, Len(fr[cur].inputs))
  /\ Commit(StepWhenStart(Machine, cur))
  /\ UNCHANGED CoroVars

WhenResume ==
  /\ ub = "none" /\ cur # 0 /\ fr[cur].kind \in ComposeOps /\ fr[cur].ph = 1
  /\ Commit(StepWhenResume(Machine, cur))
  /\ UNCHANGED CoroVars

AwaitSuspendStep ==
  /\ ub = "none" /\ cur = 0 /\ nstack # <<>> /\ Last(nstack).i # 0
  /\ Commit(AwaitSuspendLoop(Machine))
  /\ UNCHANGED CoroVars

WhenAllTaskStep ==
  /\ Running("helper_all")
  /\ Commit(StepHelperAll(Machine, cur))
  /\ UNCHANGED CoroVars

WhenAnyTaskStep ==
  /\ Running("helper_any")
  /\ Commit(StepHelperAny(Machine, cur))
  /\ UNCHANGED CoroVars

\* ---------------------------------------------------------------- server steps
\* accept() inside socket_accept: the next connection leaves the listen queue,
\* its fd is the call's value.
TaskAccept ==
  /\ TaskOp({"accept"})
  /\ net.accepted < MaxClients
  /\ net' = [net EXCEPT !.accepted = @ + 1]
  /\ Commit([Machine EXCEPT !.fr[cur].acc = <<"value", <<"int", 2 + net.accepted>> >>,
                            !.fr[cur].pc = @ + 1])
  /\ UNCHANGED <<mpc, mode, timeout, ebuf, ei, now, flip, outcome, io, files, http, router,
                 spawned_tasks>>

\* handle_request, leaving its try block.  An exception of the stage just
\* passed (one that a co_await delivered, EOFException for a hang-up reported
\* with the request's readiness, the parser's or the write's error) is caught
\* by the catch clauses, which log it; the task falls off its end.  The stage
\* "write" is the last statement of the block.
Thrown(M, f, k) ==
  LET I == Instr(M, f)
      a == M.fr[f].acc
  IN IF a[1] = "caught" THEN a[2]
     ELSE IF I.stage = "read" /\ a[1] = "value" /\ a[2][1] = "mask"
             /\ "HUP" \in a[2][2] THEN "EOFException"
     ELSE IF I.stage = "read" /\ k = "malformed" THEN "invalid request"
     ELSE IF I.stage = "write" /\ k = "write" THEN "write"
     ELSE "none"

\* A client_buffer that is not destroyed when an exception leaves the block.
close_client_sock_OnReturnOnly(M, f, k) ==
  Thrown(M, f, k) = "none" /\ Instr(M, f).stage = "write"

\* ~AsyncFileBuffer / ~AsyncFile at the end of the try block, however it is
\* left: close(fd_).
close_client_sock(M, f, k) ==
  Thrown(M, f, k) # "none" \/ Instr(M, f).stage = "write"

StepTry(M, f, k) ==
  LET e == Thrown(M, f, k) IN
  IF e # "none"
  THEN CoReturn([M EXCEPT !.fr[f].acc = <<"caught", e>>], f, <<"void">>)
  ELSE [M EXCEPT !.fr[f].pc = @ + 1]

TaskTry ==
  /\ TaskOp({"try"})
  /\ LET fd == fr[cur].script[1].fd
         k  == net.fail[fd - 1]
     IN /\ Commit(StepTry(Machine, cur, k))
        /\ net' = IF close_client_sock(Machine, cur, k)
                  THEN [net EXCEPT !.closed = @ \cup {fd}] ELSE net
  /\ UNCHANGED <<mpc, mode, timeout, ebuf, ei, now, flip, outcome, io, files, http, router,
                 spawned_tasks>>

\* swap(Task &, Task &), which Task::operator= calls and std::swap reaches
\* through it: the two tasks exchange their coroutines.
swap(s, i, j) == [s EXCEPT ![i] = s[j], ![j] = s[i]]

\* spawn_task, its first loop: a task of spawned_tasks that is done is swapped
\* with the last one and popped, which destroys it.
RECURSIVE PruneDone(_, _, _), PruneDone_NotDoneToo(_, _, _)

PruneDone_NotDoneToo(M, s, i) ==
  IF i > Len(s) THEN [m |-> M, s |-> s]
  ELSE PruneDone_NotDoneToo(DestroyFrame(M, s[i]),
                            SubSeq(swap(s, i, Len(s)), 1, Len(s) - 1), i)

PruneDone(M, s, i) ==
  IF i > Len(s) THEN [m |-> M, s |-> s]
  ELSE IF M.fr[s[i]].st = "done"
       THEN PruneDone(DestroyFrame(M, s[i]),
                      SubSeq(swap(s, i, Len(s)), 1, Len(s) - 1), i)
       ELSE PruneDone(M, s, i + 1)

\* handler = handle_request(..., client_sock, router); spawn_task(handler) up to
\* the resume(): the done tasks are pruned, then the handler is started from
\* this native activation.
TaskSpawn ==
  /\ TaskOp({"spawn"})
  /\ HasFree(Machine, 1)
  /\ LET fd   == fr[cur].acc[2][2]
         P    == PruneDone(Machine, spawned_tasks, 1)
         M1   == P.m
         h    == FirstFree(M1)
         M2   == NewFrame(M1, NewTask(handle_request(fd, net.route[fd - 1],
                                                     net.fail[fd - 1])))
     IN /\ Commit(Transfer([M2 EXCEPT !.fr[h].prev = 0, !.fr[h].linked = @ + 1,
                                      !.hist.spawned = Append(@, h),
                                      !.nstack = Append(@, [g |-> cur, i |-> 0,
                                                            t |-> h])], h))
        /\ spawned_tasks' = P.s
  /\ UNCHANGED <<mpc, mode, timeout, ebuf, ei, now, flip, outcome, io, files, http, router, net>>

\* The handler has suspended (or finished): resume() returns into spawn_task,
\* spawned_tasks.push_back(std::move(t)), and main's task goes round its loop.
SpawnReturn ==
  /\ ub = "none" /\ cur = 0 /\ nstack # <<>> /\ Last(nstack).i = 0
  /\ spawned_tasks' = Append(spawned_tasks, Last(nstack).t)
  /\ cur' = Last(nstack).g
  /\ nstack' = SubSeq(nstack, 1, Len(nstack) - 1)
  /\ fr' = [fr EXCEPT ![Last(nstack).g].pc = 1]
  /\ UNCHANGED <<mpc, mode, timeout, ebuf, ei, timed_coros, kernel,
                 registered_cnt, now, flip, ub, outcome, hist, io, files, http, router, net>>

\* ---------------------------------------------------------------- driver
\* Native code of the driver runs when no coroutine runs and no await_suspend
\* activation is above it on the native stack.
Native(pc) == ub = "none" /\ cur = 0 /\ nstack = <<>> /\ mpc = pc

\* run_task / spawn_task: a.await_suspend(std::noop_coroutine()).resume(),
\* then (run_task) loop.run().
MainStart ==
  /\ Native("start")
  /\ Commit(TaskAwaiter_await_suspend_root(Machine))
  /\ mpc' = "timed"
  /\ UNCHANGED <<io, files, http, router, net, spawned_tasks, mode, timeout, ebuf, ei, now, flip, outcome>>

\* A deadline test that is off by one tick: expire_ <= now + 1.
Due_Early(expire, t) == expire <= t + 1

\* TimedScheduler::run(): one turn of the inner loop over timed_coros_.
\* Nothing ever inserts into ready_coros_, so its loop is not modelled.
Due(expire, t) == expire <= t

TimedRun ==
  /\ Native("timed")
  /\ \E o \in AddressOrders(Machine) :
       /\ flip' = o
       /\ LET M == Machine IN
          IF timed_coros = {}
          THEN /\ timeout' = None
               /\ mpc' = "branch"
               /\ UNCHANGED <<fr, cur, nstack, timed_coros, kernel,
                              registered_cnt, ub, hist>>
          ELSE LET top == Begin(M, o) IN
               IF Due(fr[top].expire, now)
               THEN /\ Commit(Transfer([M EXCEPT !.hist.fired =
                               Append(@, [f |-> top, expire |-> fr[top].expire,
                                          at |-> now, st |-> fr[top].st,
                                          pending |-> timed_coros])], top))
                    /\ UNCHANGED <<timeout, mpc>>
               ELSE /\ timeout' = fr[top].expire - now
                    /\ mpc' = "branch"
                    /\ UNCHANGED <<fr, cur, nstack, timed_coros, kernel,
                                   registered_cnt, ub, hist>>
  /\ UNCHANGED <<io, files, http, router, net, spawned_tasks, mode, ebuf, ei, now, outcome>>

\* have_registered_events that overlooks a single registration.
have_registered_events_MoreThanOne == registered_cnt > 1

\* EpollScheduler::have_registered_events
have_registered_events == registered_cnt # 0

\* What epoll_wait may report: events for distinct fds of the interest list,
\* in any order, each with the registered user data and a non-empty mask.
ReportMasks(interest) == {interest, interest \cup {"HUP"}}

Registered == {fd \in AllFds : kernel[fd].ptr # 0}

Reports ==
  {<<>>}
    \cup UNION {{<<[fd |-> a, ptr |-> kernel[a].ptr, events |-> m]>> :
                    m \in ReportMasks(kernel[a].events)} : a \in Registered}
    \cup {<<[fd |-> p[1], ptr |-> kernel[p[1]].ptr, events |-> kernel[p[1]].events],
            [fd |-> p[2], ptr |-> kernel[p[2]].ptr, events |-> kernel[p[2]].events]>> :
            p \in {q \in Registered \X Registered : q[1] # q[2]}}

\* An AsyncLoop::run that sleeps whenever a timer is pending.
LoopBranch_SleepFirst ==
  IF timeout # None THEN "sleep"
  ELSE IF have_registered_events THEN "epoll" ELSE "break"

\* AsyncLoop::run: which of its three branches the turn takes.
LoopBranch ==
  IF have_registered_events THEN "epoll"
  ELSE IF timeout # None THEN "sleep" ELSE "break"

\* AsyncLoop::run, first branch: epoll_sched_.run(timeout) up to the return of
\* epoll_wait.  An empty report is a timeout (the clock has then reached the
\* deadline) or EINTR (res is set to 0).
LoopEpollWait ==
  /\ Native("branch")
  /\ LoopBranch = "epoll"
  /\ mode # "server"
  /\ \E r \in Reports, eintr \in BOOLEAN :
       /\ (r = <<>> /\ ~eintr) => timeout # None
       /\ (r # <<>>) => ~eintr
       /\ ebuf' = r
       /\ now' = IF r = <<>> /\ ~eintr THEN now + timeout ELSE now
  /\ ei' = 1
  /\ mpc' = "batch"
  /\ hist' = [hist EXCEPT !.batch = <<>>]
  /\ UNCHANGED <<io, files, http, router, net, spawned_tasks, fr, cur, nstack, mode, timeout, timed_coros, kernel,
                 registered_cnt, flip, ub, outcome>>

\* epoll_wait in a run of the server.  The listening socket is readable while
\* a client that has connected has not been accepted, a connection is readable
\* and writable.  What is ready is reported at once, all of it, in any order;
\* with nothing ready the call returns when the next client connects or when
\* the timeout has passed, whichever is first (never, with neither).  Nothing
\* else takes time in these runs.
Ready(fd) ==
  fd # Listen \/ \E c \in Clients : c > net.accepted /\ net.arrive[c] <= now

\* A connection whose peer has hung up is reported with EPOLLHUP.
Event(fd) ==
  [fd |-> fd, ptr |-> kernel[fd].ptr,
   events |-> kernel[fd].events
                \cup (IF fd # Listen /\ net.fail[fd - 1] = "eof"
                      THEN {"HUP"} ELSE {})]

Wakes ==
  (IF Listen \in Registered
   THEN {net.arrive[c] : c \in {x \in Clients : x > net.accepted}} ELSE {})
    \cup (IF timeout = None THEN {} ELSE {now + timeout})

ServerEpollWait ==
  /\ Native("branch")
  /\ LoopBranch = "epoll"
  /\ mode = "server"
  /\ LET ready == {fd \in Registered : Ready(fd)} IN
     IF ready # {}
     THEN /\ \E s \in [1..Cardinality(ready) -> ready] :
               /\ \A i, j \in DOMAIN s : s[i] = s[j] => i = j
               /\ ebuf' = [i \in DOMAIN s |-> Event(s[i])]
          /\ now' = now
     ELSE /\ Wakes # {}
          /\ LET t == CHOOSE x \in Wakes : \A y \in Wakes : x <= y IN
               /\ now' = t
               /\ ebuf' = IF /\ Listen \in Registered
                             /\ \E c \in Clients : /\ c > net.accepted
                                                   /\ net.arrive[c] = t
                          THEN <<Event(Listen)>> ELSE <<>>
  /\ ei' = 1
  /\ mpc' = "batch"
  /\ hist' = [hist EXCEPT !.batch = <<>>]
  /\ UNCHANGED <<fr, cur, nstack, mode, timeout, timed_coros, kernel,
                 registered_cnt, flip, ub, outcome, io, files, http, router, net, spawned_tasks>>

\* set_resume_events that drops the mask.
set_resume_events_Drops(M, p, mask) ==
  IF M.fr[p].st = "destroyed"
  THEN [M EXCEPT !.ub = "write_destroyed", !.hist.badResume = p]
  ELSE [M EXCEPT !.fr[p].resume_events = {}]

\* EpollFilePromise::set_resume_events writes through awaiter_ into the frame.
set_resume_events(M, p, mask) ==
  IF M.fr[p].st = "destroyed"
  THEN [M EXCEPT !.ub = "write_destroyed", !.hist.badResume = p]
  ELSE [M EXCEPT !.fr[p].resume_events = mask]

\* EpollScheduler::run, the loop over ebuf.
EpollDispatch ==
  /\ Native("batch")
  /\ IF ei > Len(ebuf)
     THEN /\ mpc' = "timed"
          /\ UNCHANGED <<fr, cur, nstack, timed_coros, kernel, registered_cnt,
                         ub, hist, ei>>
     ELSE LET e  == ebuf[ei]
              M1 == [Machine EXCEPT !.hist.batch = Append(@, e.ptr),
                                    !.hist.reported[e.ptr] =
                                       IF fr[e.ptr].st = "suspended"
                                       THEN e.events ELSE @,
                                    !.hist.schedBad =
                                       IF fr[e.ptr].st = "destroyed"
                                       THEN e.ptr ELSE @]
              M2 == set_resume_events(M1, e.ptr, e.events)
          IN /\ Commit(IF M2.ub # "none" THEN M2 ELSE Transfer(M2, e.ptr))
             /\ ei' = ei + 1
             /\ mpc' = mpc
  /\ UNCHANGED <<io, files, http, router, net, spawned_tasks, mode, timeout, ebuf, now, flip, outcome>>

\* AsyncLoop::run, second branch: std::this_thread::sleep_for(*timeout).
LoopSleep ==
  /\ Native("branch")
  /\ LoopBranch = "sleep"
  /\ now' = now + timeout
  /\ mpc' = "timed"
  /\ UNCHANGED <<io, files, http, router, net, spawned_tasks, fr, cur, nstack, mode, timeout, ebuf, ei, timed_coros, kernel,
                 registered_cnt, flip, ub, outcome, hist>>

\* AsyncLoop::run, third branch: break.
LoopBreak ==
  /\ Native("branch")
  /\ LoopBranch = "break"
  /\ mpc' = "await_resume"
  /\ UNCHANGED <<io, files, http, router, net, spawned_tasks, fr, cur, nstack, mode, timeout, ebuf, ei, timed_coros, kernel,
                 registered_cnt, now, flip, ub, outcome, hist>>

\* run_task: return a.await_resume(), that is the root's result().
MainAwaitResume ==
  /\ Native("await_resume")
  /\ outcome' = IF fr[Root].st = "destroyed" THEN <<"dropped">>
                ELSE Result(fr[Root].res, fr[Root].void)
  /\ mpc' = "returned"
  /\ UNCHANGED <<io, files, http, router, net, spawned_tasks, fr, cur, nstack, mode, timeout, ebuf, ei, timed_coros, kernel,
                 registered_cnt, now, flip, ub, hist>>

\* The owner of a task started with spawn_task lets it go out of scope between
\* two turns of the loop while the task is suspended: Task::~Task.
DropRoot ==
  /\ Native("timed")
  /\ mode = "drop"
  /\ fr[Root].st = "suspended"
  /\ Commit([DestroyFrame(Machine, Root) EXCEPT !.hist.dropped = TRUE])
  /\ UNCHANGED <<io, files, http, router, net, spawned_tasks, mpc, mode, timeout, ebuf, ei, now, flip, outcome>>

\* The owner of a task that was not handed to run_task reads Task::result()
\* before or between turns of the loop; the run is followed no further.
CallResult ==
  /\ \/ Native("start")
     \/ Native("timed")
  /\ mode = "drop"
  /\ fr[Root].st # "destroyed"
  /\ hist' = [hist EXCEPT !.peek = <<fr[Root].st,
                                     Result(fr[Root].res, fr[Root].void)>>]
  /\ mpc' = "peeked"
  /\ UNCHANGED <<io, files, http, router, net, spawned_tasks, fr, cur, nstack, mode, timeout, ebuf, ei, timed_coros, kernel,
                 registered_cnt, now, flip, ub, outcome>>

\* The clock moves on.
Tick ==
  /\ ub = "none" /\ cur = 0 /\ nstack = <<>>
  /\ mode # "server"
  /\ mpc \in {"timed", "branch", "batch"}
  /\ now < MaxTime
  /\ now' = now + 1
  /\ UNCHANGED <<io, files, http, router, net, spawned_tasks, fr, cur, nstack, mpc, mode, timeout, ebuf, ei, timed_coros,
                 kernel, registered_cnt, flip, ub, outcome, hist>>

Next ==
  \/ TaskReturn \/ TaskThrow \/ TaskLocal \/ TaskAwait \/ TaskCompose
  \/ TaskAwaitResume \/ SleepStep \/ WaitFileEventStep
  \/ WhenStart \/ WhenResume \/ AwaitSuspendStep
  \/ WhenAllTaskStep \/ WhenAnyTaskStep
  \/ MainStart \/ TimedRun \/ LoopEpollWait \/ EpollDispatch
  \/ LoopSleep \/ LoopBreak \/ MainAwaitResume \/ DropRoot \/ CallResult
  \/ Tick

Spec == Init /\ [][Next]_vars

\* A program under run_task with the loop left to itself: epoll_wait whose
\* timeout is set returns at the latest when the timeout has passed, and the
\* program's own steps are taken when they can be.
InitLoop == Init /\ mode = "run_task"

NextLoop ==
  \/ TaskReturn \/ TaskThrow \/ TaskLocal \/ TaskAwait \/ TaskCompose
  \/ TaskAwaitResume \/ SleepStep \/ WaitFileEventStep
  \/ WhenStart \/ WhenResume \/ AwaitSuspendStep
  \/ WhenAllTaskStep \/ WhenAnyTaskStep
  \/ MainStart \/ TimedRun \/ LoopEpollWait \/ EpollDispatch
  \/ LoopSleep \/ LoopBreak \/ MainAwaitResume
  \/ Tick

\* epoll_wait returns 0 because its timeout has passed.
EpollTimeout == LoopEpollWait /\ ebuf' = <<>> /\ now' # now

Progress ==
  \/ TaskReturn \/ TaskThrow \/ TaskLocal \/ TaskAwait \/ TaskCompose
  \/ TaskAwaitResume \/ SleepStep \/ WaitFileEventStep
  \/ WhenStart \/ WhenResume \/ AwaitSuspendStep
  \/ WhenAllTaskStep \/ WhenAnyTaskStep
  \/ MainStart \/ TimedRun \/ EpollDispatch
  \/ LoopSleep \/ LoopBreak \/ MainAwaitResume

\* A step of Progress can be taken: the run has not ended, in undefined
\* behaviour or by the return of run_task, and is not inside epoll_wait.
Runnable ==
  /\ ub = "none" /\ mpc # "returned"
  /\ ~(Native("branch") /\ LoopBranch = "epoll")

\* The thread keeps running: weak fairness of Progress, written out with the
\* condition under which it can step; a timeout of epoll_wait that is set
\* again and again passes in the end.
SpecLoop ==
  /\ InitLoop /\ [][NextLoop]_vars
  /\ []<>(~Runnable) \/ []<><<Progress>>_vars
  /\ SF_vars(EpollTimeout)

\* The steps the server takes: its tasks await, sleep, wait for fds, accept and
\* spawn; the loop never ends.
NextServer ==
  \/ TaskReturn \/ TaskAwait \/ TaskAwaitResume \/ SleepStep
  \/ WaitFileEventStep \/ TaskAccept \/ TaskSpawn \/ SpawnReturn \/ TaskTry
  \/ MainStart \/ TimedRun \/ ServerEpollWait \/ EpollDispatch

SpecServer == InitServer /\ [][NextServer]_vars

\* With failing connections a route's handler may throw.
NextServerFail == NextServer \/ TaskThrow

SpecServerFail == InitServerFail /\ [][NextServerFail]_vars

\* ---------------------------------------------------------------- model sanity
TypeOK ==
  /\ cur \in {0} \cup FrameIds
  /\ registered_cnt \in Int
  /\ now \in Nat
  /\ \A f \in FrameIds : fr[f].st \in {"none", "created", "suspended",
                                       "running", "done", "destroyed"}

\* ================================================================ buffered streams
\* AsyncIStreamBase / AsyncOStreamBase of lib/include/aio.hpp over one fd.
\* Bytes are "a" and "b"; "?" is what a fresh buffer holds.  A call is one
\* action.  `outside' records a byte read at an index outside [start_, end_)
\* or stored at an index outside [0, capacity_).  A reader's run fixes what the peer sends, where its bytes arrive in
\* separate pieces (cuts) and whether the hang-up is seen together with the
\* last piece; a writer's call draws how much its writes take.
MaxData     == 4         \* bytes the peer sends / the caller writes
MaxCapacity == 2         \* buffer sizes are drawn from 1..MaxCapacity

Bytes == {"a", "b"}

SeqsUpTo(S, n) == UNION {[1..k -> S] : k \in 0..n}

Least(a, b) == IF a <= b THEN a ELSE b

Rest(s, n) == SubSeq(s, n + 1, Len(s))

\* ---------------------------------------------------------------- reading
\* read_file_best_effort: the event is awaited with EPOLLIN|EPOLLRDHUP|EPOLLHUP;
\* with a hang-up bit in it nothing is read and {0, hup} is returned, else
\* read_file_sync reads what is there, up to the size of the span.
read_file_best_effort(pending, hupbit, size) ==
  IF hupbit THEN [result |-> 0, hup |-> TRUE]
  ELSE [result |-> Least(pending, size), hup |-> FALSE]

\* Reader::read of the stream over an fd: one read_file_best_effort into the
\* span, the byte count is handed on.  Pending is the piece that has arrived:
\* the bytes up to the next cut.  The hang-up bit is in the event when nothing
\* is left to come, and, in a run with hupWithData, when the last piece is
\* pending.
Reader_read(S) ==
  LET done == Len(S.data) - Len(S.rem)
      next == CHOOSE c \in S.cuts \cup {Len(S.data)} :
                /\ c >= done /\ (c = done => c = Len(S.data))
                /\ \A d \in S.cuts : d > done => c <= d
  IN read_file_best_effort(next - done,
                           S.rem = <<>> \/ (S.hupWithData /\ next = Len(S.data)),
                           S.capacity_).result

\* An emptiness test against the end of the buffer, not of the bytes read.
empty_AtCapacity(S) == S.start_ = S.capacity_

\* AsyncIStreamBase::empty
empty(S) == S.start_ = S.end_

\* refill that takes the buffer to be full after every read.
refill_WholeBuffer(S) ==
  LET sz == Reader_read(S) IN
  IF sz # 0
  THEN [S EXCEPT !.buffer_ = [i \in 1..S.capacity_ |->
                                IF i <= sz THEN S.rem[i] ELSE @[i]],
                 !.rem = Rest(@, sz), !.start_ = 0, !.end_ = S.capacity_]
  ELSE [S EXCEPT !.failed = TRUE]

\* AsyncIStreamBase::refill: read into the whole buffer; sz bytes make the
\* buffer [0, sz), no byte throws EOFException.
refill(S) ==
  LET sz == Reader_read(S) IN
  IF sz # 0
  THEN [S EXCEPT !.buffer_ = [i \in 1..S.capacity_ |->
                                IF i <= sz THEN S.rem[i] ELSE @[i]],
                 !.rem = Rest(@, sz), !.start_ = 0, !.end_ = sz]
  ELSE [S EXCEPT !.failed = TRUE]

\* AsyncIStreamBase::getchar, and the same three lines inside getn and getline:
\* if (empty()) co_await refill(); ch = buffer_[start_++].
getchar(S) ==
  LET S1 == IF empty(S) THEN refill(S) ELSE S
  IN [s  |-> IF S1.failed THEN S1
             ELSE [S1 EXCEPT !.start_ = @ + 1,
                             !.outside = @ \/ ~(S1.start_ < S1.end_)],
      ch |-> IF S1.failed THEN "?" ELSE S1.buffer_[S1.start_ + 1]]

\* AsyncIStreamBase::getn(n): n times getchar, the bytes collected in s.
RECURSIVE getn(_, _, _)
getn(S, n, s) ==
  IF n = 0 THEN [s |-> S, out |-> s]
  ELSE LET r == getchar(S) IN
       IF r.s.failed THEN [s |-> r.s, out |-> <<>>]
       ELSE getn(r.s, n - 1, Append(s, r.ch))

\* AsyncIStreamBase::getline(eol).  i = 0: the outer loop reads a byte; i >= 1:
\* the inner loop has matched eol[0..i) and reads the byte to compare with
\* eol[i].  On a mismatch the matched bytes are appended and the outer loop goes
\* on with the byte after the one that did not match.
RECURSIVE getline(_, _, _, _)
getline(S, eol, i, s) ==
  IF i = Len(eol) THEN [s |-> S, out |-> s]
  ELSE LET r == getchar(S) IN
       IF r.s.failed THEN [s |-> r.s, out |-> <<>>]
       ELSE IF i = 0
            THEN IF r.ch = eol[1] THEN getline(r.s, eol, 1, s)
                 ELSE getline(r.s, eol, 0, Append(s, r.ch))
            ELSE IF r.ch = eol[i + 1] THEN getline(r.s, eol, i + 1, s)
                 ELSE getline(r.s, eol, 0, s \o SubSeq(eol, 1, i))

\* ---------------------------------------------------------------- writing
\* What the writes of one call take: the first at most w.first bytes, the
\* others at most w.then: nothing (a hang-up), one byte, or all there is.
Writes == [first : {0, 1, MaxData}, then : {0, 1, MaxData}]

Later(w) == [w EXCEPT !.first = w.then]

RECURSIVE write_buffer(_, _, _)

\* write_buffer that writes the same span again after a partial write.
write_buffer_NoAdvance(S, sp, w) ==
  IF sp = <<>> THEN [s |-> S, w |-> w]
  ELSE LET sz == Least(w.first, Len(sp))
           S1 == [S EXCEPT !.sink = @ \o SubSeq(sp, 1, sz)]
       IN IF sz = 0 THEN [s |-> [S EXCEPT !.failed = TRUE], w |-> Later(w)]
          ELSE IF sz # Len(sp)
               THEN write_buffer(S1, sp, [first |-> Len(sp), then |-> Len(sp)])
          ELSE [s |-> S1, w |-> Later(w)]

\* AsyncOStreamBase::write_buffer(sp): derived.write(sp) until a write takes
\* all that is left; a write that takes nothing throws EOFException.
write_buffer(S, sp, w) ==
  IF sp = <<>> THEN [s |-> S, w |-> w]
  ELSE LET sz == Least(w.first, Len(sp))
           S1 == [S EXCEPT !.sink = @ \o SubSeq(sp, 1, sz)]
       IN IF sz = 0 THEN [s |-> [S EXCEPT !.failed = TRUE], w |-> Later(w)]
          ELSE IF sz # Len(sp) THEN write_buffer(S1, Rest(sp, sz), Later(w))
          ELSE [s |-> S1, w |-> Later(w)]

\* AsyncOStreamBase::flush: write buffer_[0, end_), then end_ = 0.
flush(S, w) ==
  IF S.end_ # 0
  THEN LET r == write_buffer(S, SubSeq(S.buffer_, 1, S.end_), w)
       IN IF r.s.failed THEN r ELSE [r EXCEPT !.s.end_ = 0]
  ELSE [s |-> S, w |-> w]

\* AsyncOStreamBase::full
full(S) == S.end_ = S.capacity_

\* AsyncOStreamBase::putchar
putchar(S, ch, w) ==
  LET S1 == IF full(S) THEN flush(S, w).s ELSE S
  IN IF S1.failed THEN S1
     ELSE [S1 EXCEPT !.buffer_[S1.end_ + 1] = ch, !.end_ = @ + 1,
                     !.outside = @ \/ ~(S1.end_ < S1.capacity_)]

\* AsyncOStreamBase::puts(sv): a slice larger than the free room is written
\* directly, after the pending bytes; else the copy loop, from sv[i] on.
RECURSIVE puts(_, _, _, _)
puts(S, sv, i, w) ==
  IF i = 0 /\ S.capacity_ - S.end_ < Len(sv)
  THEN LET r == flush(S, w)
       IN IF r.s.failed THEN r.s ELSE write_buffer(r.s, sv, r.w).s
  ELSE IF i >= Len(sv) THEN S
  ELSE LET can_write == Least(S.capacity_ - S.end_, Len(sv) - i) IN
       IF can_write = 0
       THEN LET r == flush(S, w)
            IN IF r.s.failed THEN r.s ELSE puts(r.s, sv, i, r.w)
       ELSE puts([S EXCEPT !.buffer_ = [j \in 1..S.capacity_ |->
                               IF j > S.end_ /\ j <= S.end_ + can_write
                               THEN sv[i + j - S.end_] ELSE @[j]],
                           !.end_ = @ + can_write],
                 sv, i + can_write, w)

\* ---------------------------------------------------------------- stream runs
NoCall == [fn |-> "none", arg |-> <<>>, ok |-> TRUE, out |-> <<>>, from |-> 0,
           to |-> 0, follows |-> 0, before |-> <<>>, left |-> <<>>,
           pending |-> 0, w |-> 0]

NewStream(side, data, cap, cuts, hup) ==
  [side |-> side, data |-> data, rem |-> data, cuts |-> cuts,
   hupWithData |-> hup, buffer_ |-> [i \in 1..cap |-> "?"], capacity_ |-> cap,
   start_ |-> 0, end_ |-> 0, sink |-> <<>>, failed |-> FALSE, last |-> NoCall,
   outside |-> FALSE]

\* Where the reader stands in the peer's bytes.
Position(S) == Len(S.data) - Len(S.rem) - (S.end_ - S.start_)

InitIO ==
  /\ InitWith(Body(TRUE, <<Ret(<<"void">>)>>), "run_task")
  /\ net = NoNet /\ spawned_tasks = <<>>
  /\ files = NotUsed /\ http = NotUsed /\ router = NotUsed
  /\ \E cap \in 1..MaxCapacity :
       \/ \E data \in SeqsUpTo(Bytes, MaxData), hup \in BOOLEAN :
            \E cuts \in SUBSET (1..MaxData - 1) :
              /\ \A c \in cuts : c < Len(data)
              /\ io = NewStream("in", data, cap, cuts, hup)
       \/ io = NewStream("out", <<>>, cap, {}, FALSE)

SchedulerVars ==
  <<fr, cur, nstack, mpc, mode, timeout, ebuf, ei, timed_coros, kernel,
    registered_cnt, now, flip, ub, outcome, hist, net, spawned_tasks>>

\* A stream that threw EOFException is not used again.
Open(side) == io.side = side /\ ~io.failed

\* One call of the reader; it returns a string or leaves with EOFException.
Returned(S, fn, arg, r) ==
  [r.s EXCEPT !.last = [NoCall EXCEPT !.fn = fn, !.arg = arg,
                                      !.ok = ~r.s.failed, !.out = r.out,
                                      !.from = Position(S), !.to = Position(r.s),
                                      !.follows = S.last.to,
                                      !.before = S.rem, !.left = r.s.rem]]

Getn ==
  /\ Open("in")
  /\ \E n \in 0..MaxData - 1 : io' = Returned(io, "getn", <<n>>, getn(io, n, <<>>))
  /\ UNCHANGED <<SchedulerVars, files, http, router>>

Delimiters == {<<"a", "b">>, <<"a", "a">>}

Getline ==
  /\ Open("in")
  /\ \E eol \in Delimiters :
       io' = Returned(io, "getline", eol, getline(io, eol, 0, <<>>))
  /\ UNCHANGED <<SchedulerVars, files, http, router>>

\* One call of the writer; data collects the arguments of the calls, last is
\* the call, what was pending before it and what its writes took.
Wrote(S, T, fn, arg, w) ==
  [T EXCEPT !.data = @ \o arg,
            !.last = [NoCall EXCEPT !.fn = fn, !.arg = arg, !.pending = S.end_,
                                    !.w = w.first]]

Putchar ==
  /\ Open("out") /\ Len(io.data) < MaxData
  /\ \E ch \in Bytes, w \in Writes :
       io' = Wrote(io, putchar(io, ch, w), "putchar", <<ch>>, w)
  /\ UNCHANGED <<SchedulerVars, files, http, router>>

Puts ==
  /\ Open("out")
  /\ \E sv \in SeqsUpTo(Bytes, MaxData - Len(io.data)), w \in Writes :
       io' = Wrote(io, puts(io, sv, 0, w), "puts", sv, w)
  /\ UNCHANGED <<SchedulerVars, files, http, router>>

Flush ==
  /\ Open("out")
  /\ \E w \in Writes : io' = Wrote(io, flush(io, w).s, "flush", <<>>, w)
  /\ UNCHANGED <<SchedulerVars, files, http, router>>

NextIO == Getn \/ Getline \/ Putchar \/ Puts \/ Flush

SpecIO == InitIO /\ [][NextIO]_vars

\* ================================================================ AsyncFile
\* AsyncFile of lib/include/aio.hpp: fd_ and borrow_.  files.w holds the
\* objects of the run and, above them, the temporaries of the calls in
\* progress; closes counts the close() calls on each fd; owned are the fds that
\* were handed to a constructor with borrow = false, released the ones that
\* release() gave back; ub is what ended the run.
MaxWrappers == 3         \* AsyncFile objects of a run
MaxFiles    == 2         \* fds the run opens
MaxStack    == 3         \* nested calls the stack has room for

Wrappers == 1..MaxWrappers
FileFds  == 3..(2 + MaxFiles)
Slots    == 1..(MaxWrappers + 2 * MaxStack + 2)

NoObject == [live |-> FALSE, fd_ |-> -1, borrow_ |-> FALSE]

\* AsyncFile(int fd, bool nonblock, bool borrow) and AsyncFile()
AsyncFile(F, w, fd, borrow) ==
  [F EXCEPT !.w[w] = [live |-> TRUE, fd_ |-> fd, borrow_ |-> borrow]]

\* AsyncFile(AsyncFile &&other)
AsyncFile_move(F, w, other) ==
  [F EXCEPT !.w[w] = [live |-> TRUE, fd_ |-> F.w[other].fd_,
                      borrow_ |-> F.w[other].borrow_],
            !.w[other].fd_ = -1, !.w[other].borrow_ = FALSE]

\* ~AsyncFile()
AsyncFile_dtor(F, w) ==
  LET o == F.w[w] IN
  IF o.fd_ # -1 /\ ~o.borrow_
  THEN [F EXCEPT !.w[w] = NoObject, !.closes[o.fd_] = @ + 1]
  ELSE [F EXCEPT !.w[w] = NoObject]

\* release()
release(F, w) == [F EXCEPT !.w[w].fd_ = -1]

\* The storage of the next temporary.
Temp(F) ==
  CHOOSE t \in Slots \ Wrappers :
    ~F.w[t].live /\ \A u \in Slots \ Wrappers : ~F.w[u].live => t <= u

\* operator=(AsyncFile &&other): the assert (a build without NDEBUG), then
\* AsyncFile temp(std::move(other)); std::swap(temp, *this).  There is no swap
\* for AsyncFile, so std::swap is the generic one: T tmp(std::move(a));
\* a = std::move(b); b = std::move(tmp); and each of its assignments is this
\* operator again.  No path returns: the calls nest until the stack ends.
RECURSIVE move_assign(_, _, _, _), std_swap(_, _, _, _)

std_swap(F, a, b, depth) ==
  LET tmp == Temp(F)
      F1  == AsyncFile_move(F, tmp, a)
      F2  == move_assign(F1, a, b, depth + 1)
      F3  == move_assign(F2, b, tmp, depth + 1)
  IN IF F2.ub # "none" THEN F2
     ELSE IF F3.ub # "none" THEN F3 ELSE AsyncFile_dtor(F3, tmp)

move_assign(F, this, other, depth) ==
  IF depth > MaxStack THEN [F EXCEPT !.ub = "stack_overflow"]
  ELSE IF ~F.ndebug /\ F.w[this].fd_ # -1 /\ F.w[this].fd_ = F.w[other].fd_
       THEN [F EXCEPT !.ub = "assert"]
  ELSE LET temp == Temp(F)
           F1   == AsyncFile_move(F, temp, other)
           F2   == std_swap(F1, temp, this, depth)
       IN IF F2.ub # "none" THEN F2 ELSE AsyncFile_dtor(F2, temp)

Owners(F, fd) == {w \in Slots : F.w[w].live /\ F.w[w].fd_ = fd /\ ~F.w[w].borrow_}

InitFile ==
  /\ InitWith(Body(TRUE, <<Ret(<<"void">>)>>), "run_task")
  /\ net = NoNet /\ spawned_tasks = <<>> /\ io = [side |-> "off"]
  /\ http = NotUsed /\ router = NotUsed
  /\ \E nd \in BOOLEAN :
       files = [on |-> TRUE, w |-> [t \in Slots |-> NoObject],
                closes |-> [fd \in FileFds |-> 0], owned |-> {},
                released |-> {}, ub |-> "none", ndebug |-> nd, op |-> "none"]

InUse(w)  == files.ub = "none" /\ files.w[w].live
Unborn(w) == files.ub = "none" /\ ~files.w[w].live

FileFrame == <<SchedulerVars, io, http, router>>

\* AsyncFile f;  AsyncFile f(fd): an fd that is open and that no object owns,
\* fresh from socket() or given back by release();  AsyncFile f(fd, true, true):
\* an fd that is open.
Construct ==
  /\ \E w \in Wrappers :
       /\ Unborn(w)
       /\ \/ files' = [AsyncFile(files, w, -1, FALSE) EXCEPT !.op = "construct"]
          \/ \E fd \in FileFds :
               /\ files.closes[fd] = 0
               /\ \/ /\ Owners(files, fd) = {}
                     /\ fd \in files.owned => fd \in files.released
                     /\ files' = [AsyncFile(files, w, fd, FALSE) EXCEPT
                                    !.owned = @ \cup {fd},
                                    !.released = @ \ {fd}, !.op = "construct"]
                  \/ files' = [AsyncFile(files, w, fd, TRUE) EXCEPT
                                 !.op = "construct"]
  /\ UNCHANGED FileFrame

MoveConstruct ==
  /\ \E w, other \in Wrappers :
       /\ Unborn(w) /\ InUse(other)
       /\ files' = [AsyncFile_move(files, w, other) EXCEPT !.op = "move"]
  /\ UNCHANGED FileFrame

MoveAssign ==
  /\ \E this, other \in Wrappers :
       /\ InUse(this) /\ InUse(other)
       /\ files' = [move_assign(files, this, other, 1) EXCEPT !.op = "assign"]
  /\ UNCHANGED FileFrame

Release ==
  /\ \E w \in Wrappers :
       /\ InUse(w)
       /\ files' = [release(files, w) EXCEPT
                      !.released = IF files.w[w].fd_ # -1 /\ ~files.w[w].borrow_
                                   THEN @ \cup {files.w[w].fd_} ELSE @,
                      !.op = "release"]
  /\ UNCHANGED FileFrame

Destroy ==
  /\ \E w \in Wrappers :
       /\ InUse(w)
       /\ files' = [AsyncFile_dtor(files, w) EXCEPT !.op = "destroy"]
  /\ UNCHANGED FileFrame

NextFile == Construct \/ MoveConstruct \/ MoveAssign \/ Release \/ Destroy

SpecFile == InitFile /\ [][NextFile]_vars

\* ================================================================ HTTPRouter
\* http.hpp.  Strings are sequences of one-character strings, so that the
\* splitting of a path at '/', the cut at '?' and the case folding of a method
\* name are computed as the code computes them.  An HTTPRouter holds one trie
\* (root); a run registers up to MaxRoutes routes and looks paths up.
MaxUri    == 4         \* characters of a path given to route / find_route
MaxRoutes == 2         \* registrations that succeed in one run

INVALID == 0
GET     == 1
POST    == 2
PUT     == 4
DELETE  == 8
PATCH   == 16
HEAD    == 32
OPTIONS == 64
ANY     == 128
VALID   == 127

HTTPMethod == {INVALID, GET, POST, PUT, DELETE, PATCH, HEAD, OPTIONS, ANY}

npos == -1             \* std::string::npos (no position of a string is -1)

UpperCase == <<"A", "B", "C", "D", "E", "F", "G", "H", "I", "J", "K", "L", "M",
               "N", "O", "P", "Q", "R", "S", "T", "U", "V", "W", "X", "Y", "Z">>
LowerCase == <<"a", "b", "c", "d", "e", "f", "g", "h", "i", "j", "k", "l", "m",
               "n", "o", "p", "q", "r", "s", "t", "u", "v", "w", "x", "y", "z">>

tolower(c) ==
  IF \E i \in 1..Len(UpperCase) : UpperCase[i] = c
  THEN LowerCase[CHOOSE i \in 1..Len(UpperCase) : UpperCase[i] = c]
  ELSE c

\* detail::CaseInsensitiveEqual
CaseInsensitiveEqual(a, b) ==
  /\ Len(a) = Len(b)
  /\ \A i \in 1..Len(a) : tolower(a[i]) = tolower(b[i])

\* s.find(d, from): the 0-based position of the first occurrence, or npos.
find(s, d, from) ==
  LET P == {p \in (from + 1)..(Len(s) - Len(d) + 1) :
              SubSeq(s, p, p + Len(d) - 1) = d}
  IN  IF P = {} THEN npos ELSE (CHOOSE p \in P : \A q \in P : p <= q) - 1

\* s.substr(pos, n)
substr(s, pos, n) ==
  SubSeq(s, pos + 1, IF n = npos \/ pos + n > Len(s) THEN Len(s) ELSE pos + n)

\* std::views::split(s, d): every component, the empty ones included.
RECURSIVE split(_, _)
split(s, d) ==
  LET p == find(s, d, 0)
  IN  IF p = npos THEN <<s>>
      ELSE <<substr(s, 0, p)>> \o split(substr(s, p + Len(d), npos), d)

\* while (std::getline(stream, pair, d)): the pieces an istream hands out.
RECURSIVE std_getline(_, _)
std_getline(s, d) ==
  IF s = <<>> THEN <<>>
  ELSE LET p == find(s, <<d>>, 0)
       IN  IF p = npos THEN <<s>>
           ELSE <<substr(s, 0, p)>> \o std_getline(substr(s, p + 1, npos), d)

method_map ==
  { <<<<"G", "E", "T">>, GET>>, <<<<"P", "O", "S", "T">>, POST>>,
    <<<<"P", "U", "T">>, PUT>>, <<<<"D", "E", "L", "E", "T", "E">>, DELETE>>,
    <<<<"P", "A", "T", "C", "H">>, PATCH>>, <<<<"H", "E", "A", "D">>, HEAD>>,
    <<<<"O", "P", "T", "I", "O", "N", "S">>, OPTIONS>>, <<<<"*">>, ANY>> }

http_method(method) ==
  IF \E e \in method_map : CaseInsensitiveEqual(e[1], method)
  THEN (CHOOSE e \in method_map : CaseInsensitiveEqual(e[1], method))[2]
  ELSE INVALID

\* a & b on 32-bit unsigned values
RECURSIVE BitAnd(_, _)
BitAnd(a, b) ==
  IF a = 0 \/ b = 0 THEN 0
  ELSE (a % 2) * (b % 2) + 2 * BitAnd(a \div 2, b \div 2)

\* (m & ~valid) == 0 && m != 0 && (m & (m - 1)) == 0 ||
\* (allow_wildcard && method == HTTPMethod::ANY); ~valid taken in 31 bits,
\* which is enough for the values of the enumeration.
valid_http_method(method, allow_wildcard) ==
  \/ /\ BitAnd(method, (2147483647 - VALID)) = 0
     /\ method # 0
     /\ BitAnd(method, method - 1) = 0
  \/ allow_wildcard /\ method = ANY

\* HTTPRequest::ParsedURI::from
ParsedURI_from(s) ==
  IF s = <<>> THEN [type |-> "INVALID", path |-> <<>>, params |-> {}]
  ELSE IF s = <<"*">> THEN [type |-> "ASTERISK", path |-> <<>>, params |-> {}]
  ELSE IF find(s, <<":", "/", "/">>, 0) = npos /\ find(s, <<"/">>, 0) = npos
  THEN [type |-> "AUTHORITY", path |-> s, params |-> {}]
  ELSE IF find(s, <<":", "/", "/">>, 0) # npos
  THEN [type |-> "ABSOLUTE", path |-> s, params |-> {}]
  ELSE
    LET query_start == find(s, <<"?">>, 0) IN
    IF query_start = npos THEN [type |-> "ORIGIN", path |-> s, params |-> {}]
    ELSE
      LET pairs  == std_getline(substr(s, query_start + 1, npos), "&")
          has(i) == find(pairs[i], <<"=">>, 0) # npos
          key(i) == substr(pairs[i], 0, find(pairs[i], <<"=">>, 0))
          val(i) == substr(pairs[i], find(pairs[i], <<"=">>, 0) + 1, npos)
          params == {<<key(i), val(i)>> : i \in
                       {i \in 1..Len(pairs) :
                          /\ has(i)
                          /\ \A j \in (i + 1)..Len(pairs) :
                               has(j) => key(j) # key(i)}}
      IN  IF params = {}
          THEN [type |-> "INVALID", path |-> <<>>, params |-> {}]
          ELSE [type |-> "ORIGIN", path |-> substr(s, 0, query_start),
                params |-> params]

\* ---------------------------------------------------------------- the trie
\* A node is named by the segments that lead to it from the root; handlers maps
\* a method to a handler, nullptr where the map has no entry (route stores no
\* empty handler).  Handlers are numbered: each registration brings a new one.
nullptr == 0

Node == [m \in HTTPMethod |-> nullptr]

HTTPRouter == (<<>> :> Node)

Threw(root, what) == [root |-> root, threw |-> what]

\* for (auto com : std::views::split(uri, "/")): empty components are skipped,
\* a missing child is created.
RECURSIVE route_walk(_, _, _, _)
route_walk(root, coms, i, here) ==
  IF i > Len(coms) THEN [root |-> root, here |-> here]
  ELSE IF coms[i] = <<>> THEN route_walk(root, coms, i + 1, here)
  ELSE LET child == Append(here, coms[i])
       IN  route_walk(IF child \in DOMAIN root THEN root
                      ELSE root @@ (child :> Node),
                      coms, i + 1, child)

\* cur.get()->handlers[method] = std::move(handler), after the walk
insert(root, uri, method, handler) ==
  LET w == route_walk(root, split(uri, <<"/">>), 1, <<>>)
  IN  [w.root EXCEPT ![w.here][method] = handler]

\* route(HTTPMethod, uri, handler).  The method check builds a runtime_error
\* and drops it (there is no throw before it), so it decides nothing.
route(root, method, uri, handler) ==
  LET parsed_uri == ParsedURI_from(uri) IN
  IF ~(Len(uri) > 0 /\ uri[1] = "/") THEN Threw(root, "path should start with '/'")
  ELSE IF parsed_uri.type \notin {"ORIGIN", "ASTERISK"}
  THEN Threw(root, "invalid path")
  ELSE IF parsed_uri.params # {}
  THEN Threw(root, "route entry cannot contain params")
  ELSE IF handler = nullptr THEN Threw(root, "handler cannot be empty")
  ELSE Threw(insert(root, uri, method, handler), "none")

\* route(std::string_view method, uri, handler): after the check of the name it
\* calls route(method, ...) with the string_view again, which is this overload.
RECURSIVE route_sv(_, _, _, _, _)
route_sv(root, method, uri, handler, depth) ==
  IF http_method(method) = INVALID THEN Threw(root, "invalid HTTP method")
  ELSE IF depth > MaxStack THEN Threw(root, "stack_overflow")
  ELSE route_sv(root, method, uri, handler, depth + 1)

\* route_prefix(method, path, handler): the method must be valid (the wildcard
\* included), the path an Origin-form path without query parameters; its
\* segments populate the trie.
route_prefix(root, method, uri, handler) ==
  IF ~valid_http_method(method, TRUE) THEN Threw(root, "method is not valid")
  ELSE route(root, method, uri, handler)

\* auto jt = handlers.find(method); if none, handlers.find(ANY);
\* if (jt != end) h = jt->second
handler_at_AnyFirst(node, method, h) ==
  IF node[ANY] # nullptr THEN node[ANY]
  ELSE IF node[method] # nullptr THEN node[method]
  ELSE h

handler_at(node, method, h) ==
  IF node[method] # nullptr THEN node[method]
  ELSE IF node[ANY] # nullptr THEN node[ANY]
  ELSE h

\* if (auto pos = uri.find('?')) uri = uri.substr(0, pos)
strip_query_Keeps(uri) == uri

strip_query(uri) ==
  LET pos == find(uri, <<"?">>, 0)
  IN  IF pos # 0 THEN substr(uri, 0, pos) ELSE uri

\* for (auto com : std::views::split(uri, "/")): a missing child ends the walk
RECURSIVE find_walk(_, _, _, _, _, _)
find_walk(root, method, coms, i, here, h) ==
  IF i > Len(coms) THEN h
  ELSE IF coms[i] = <<>> THEN find_walk(root, method, coms, i + 1, here, h)
  ELSE LET child == Append(here, coms[i])
       IN  IF child \notin DOMAIN root THEN h
           ELSE find_walk(root, method, coms, i + 1, child,
                          handler_at(root[child], method, h))

\* find_route(HTTPMethod, uri): the method check decides nothing here either.
find_route(root, method, uri) ==
  IF ~(Len(uri) > 0 /\ uri[1] = "/")
  THEN [threw |-> "path should start with '/'", h |-> nullptr]
  ELSE [threw |-> "none",
        h |-> find_walk(root, method, split(strip_query(uri), <<"/">>), 1, <<>>,
                        handler_at(root[<<>>], method, nullptr))]

\* find_route(std::string_view method, uri)
find_route_sv(root, method, uri) == find_route(root, http_method(method), uri)

\* ---------------------------------------------------------------- router runs
\* The paths of a run: every string of '/' and 'a' up to MaxUri characters,
\* and some with a query, an asterisk, a scheme.
PathChars == {"/", "a"}

Queries == {<<"/", "a", "?">>, <<"/", "?", "a">>, <<"/", "a", "?", "a", "=", "a">>,
            <<"/", "?", "a", "=">>, <<"*">>, <<"a", ":", "/", "/", "a">>}

Uris == (SeqsUpTo(PathChars, MaxUri) \ {<<>>}) \cup Queries

RouteMethods  == {INVALID, GET, ANY}
LookupMethods == {INVALID, GET, POST, ANY}
MethodNames   == {<<"g", "e", "t">>, <<"*">>, <<"g", "o">>}

\* The segments of a path: the runs of characters other than '/', up to a '?'.
RECURSIVE Segments(_, _, _)
Segments(p, i, run) ==
  IF i > Len(p) \/ p[i] = "?" THEN (IF run = <<>> THEN <<>> ELSE <<run>>)
  ELSE IF p[i] = "/"
  THEN (IF run = <<>> THEN <<>> ELSE <<run>>) \o Segments(p, i + 1, <<>>)
  ELSE Segments(p, i + 1, Append(run, p[i]))

NoLookup == [fn |-> "none", method |-> INVALID, name |-> <<>>, uri |-> <<>>,
             handler |-> nullptr, threw |-> "none", h |-> nullptr]

InitRouter ==
  /\ InitWith(Body(TRUE, <<Ret(<<"void">>)>>), "run_task")
  /\ net = NoNet /\ spawned_tasks = <<>> /\ io = [side |-> "off"]
  /\ files = NotUsed /\ http = NotUsed
  /\ router = [on |-> TRUE, root |-> HTTPRouter, log |-> <<>>, op |-> NoLookup]

RouterFrame == <<SchedulerVars, io, files, http>>

\* find_route is a const member: a lookup leaves the router as it found it, so
\* a run ends with its lookup (the lookups of a longer run are each the last
\* call of a shorter one).  A call that never returns ends the run as well.
Usable ==
  /\ router.op.threw # "stack_overflow"
  /\ router.op.fn \notin {"find_route", "find_route_sv"}

CanRoute == Usable /\ Len(router.log) < MaxRoutes

\* What a registration call leaves: the trie, the call, and (in log) the
\* registrations that succeeded, each with the segments of its path.
AfterRoute(fn, method, name, uri, handler, r) ==
  [router EXCEPT
     !.root = r.root,
     !.log = IF r.threw = "none"
             THEN Append(@, [fn |-> fn, method |-> method,
                             path |-> Segments(uri, 1, <<>>),
                             handler |-> handler])
             ELSE @,
     !.op = [fn |-> fn, method |-> method, name |-> name, uri |-> <<>>,
             handler |-> handler, threw |-> r.threw, h |-> nullptr]]

Route ==
  /\ CanRoute
  /\ \E method \in RouteMethods, uri \in Uris,
        handler \in {nullptr, Len(router.log) + 1} :
       router' = AfterRoute("route", method, <<>>, uri, handler,
                             route(router.root, method, uri, handler))
  /\ UNCHANGED RouterFrame

RouteByName ==
  /\ CanRoute
  /\ \E name \in MethodNames, uri \in Uris :
       router' = AfterRoute("route_sv", http_method(name), name, uri,
                             Len(router.log) + 1,
                             route_sv(router.root, name, uri,
                                      Len(router.log) + 1, 1))
  /\ UNCHANGED RouterFrame

RoutePrefix ==
  /\ CanRoute
  /\ \E method \in RouteMethods, uri \in Uris,
        handler \in {nullptr, Len(router.log) + 1} :
       router' = AfterRoute("route_prefix", method, <<>>, uri, handler,
                             route_prefix(router.root, method, uri, handler))
  /\ UNCHANGED RouterFrame

AfterFind(fn, method, name, uri, r) ==
  [router EXCEPT !.op = [fn |-> fn, method |-> method, name |-> name,
                         uri |-> uri, handler |-> nullptr, threw |-> r.threw,
                         h |-> r.h]]

FindRoute ==
  /\ Usable
  /\ \E method \in LookupMethods, uri \in Uris :
       router' = AfterFind("find_route", method, <<>>, uri,
                        find_route(router.root, method, uri))
  /\ UNCHANGED RouterFrame

FindRouteByName ==
  /\ Usable
  /\ \E name \in MethodNames, uri \in Uris :
       router' = AfterFind("find_route_sv", http_method(name), name, uri,
                        find_route_sv(router.root, name, uri))
  /\ UNCHANGED RouterFrame

NextRouter == Route \/ RouteByName \/ RoutePrefix \/ FindRoute \/ FindRouteByName

SpecRouter == InitRouter /\ [][NextRouter]_vars

\* ================================================================ HTTPRequest
\* http.hpp: HTTPRequest::write_to and HTTPRequest::read_from over the bytes of
\* one connection, and handle_request (server_epoll_coro.cpp) on top of them.
\* A run has a request R: either an HTTPRequest object that is written with
\* write_to, or the request that a client sends in the HTTP/1.1 format.
MaxBody    == 1        \* characters of a request body
MaxHeaders == 2        \* header fields of a request

CRLF   == <<"\r", "\n">>
HTTP11 == <<"H", "T", "T", "P", "/", "1", ".", "1">>
Digits == <<"0", "1", "2", "3", "4", "5", "6", "7", "8", "9">>

isdigit(c) == \E i \in 1..Len(Digits) : Digits[i] = c
isspace(c) == c \in {" ", "\t", "\n", "\r", "\f"}
isalnum(c) ==
  \/ isdigit(c)
  \/ \E i \in 1..Len(UpperCase) : c \in {UpperCase[i], LowerCase[i]}

\* The characters of the runs in the order of their codes.
Ascii == <<" ", "*", "-", "/">> \o Digits \o <<":", "=", "?", "@">>
           \o UpperCase \o <<"_">> \o LowerCase

Code(c) == CHOOSE i \in 1..Len(Ascii) : Ascii[i] = c

\* detail::CaseInsensitiveLess
RECURSIVE CaseInsensitiveLess(_, _)
CaseInsensitiveLess(a, b) ==
  IF a = <<>> \/ b = <<>> THEN a = <<>> /\ b # <<>>
  ELSE IF tolower(a[1]) # tolower(b[1])
  THEN Code(tolower(a[1])) < Code(tolower(b[1]))
  ELSE CaseInsensitiveLess(Tail(a), Tail(b))

ends_with(s, d) ==
  Len(s) >= Len(d) /\ SubSeq(s, Len(s) - Len(d) + 1, Len(s)) = d

\* while (!s.empty() && std::isspace(s.back())) s.pop_back()
RECURSIVE pop_spaces(_)
pop_spaces(s) ==
  IF s # <<>> /\ isspace(s[Len(s)]) THEN pop_spaces(SubSeq(s, 1, Len(s) - 1))
  ELSE s

\* ss >> word: leading white space is skipped, the word ends at white space;
\* gives the word and what is left of the stream.
RECURSIVE extract(_, _)
extract(s, word) ==
  IF s = <<>> THEN [word |-> word, rest |-> s]
  ELSE IF isspace(s[1])
  THEN (IF word = <<>> THEN extract(Tail(s), word)
        ELSE [word |-> word, rest |-> s])
  ELSE extract(Tail(s), Append(word, s[1]))

\* std::to_string(n)
RECURSIVE to_string(_)
to_string(n) ==
  IF n < 10 THEN <<Digits[n + 1]>>
  ELSE Append(to_string(n \div 10), Digits[(n % 10) + 1])

\* std::stoi(s) for a string without sign: the digits it starts with; -1 when
\* it starts with none (std::invalid_argument).
RECURSIVE stoi(_, _, _)
stoi(s, i, n) ==
  IF i > Len(s) \/ ~isdigit(s[i]) THEN (IF i = 1 THEN -1 ELSE n)
  ELSE stoi(s, i + 1, 10 * n + (CHOOSE d \in 0..9 : Digits[d + 1] = s[i]))

\* headers.insert_or_assign(k, v) on a map ordered by CaseInsensitiveLess: the
\* map is the sequence of its entries in their order.
RECURSIVE insert_or_assign(_, _, _)
insert_or_assign(headers, k, v) ==
  IF headers = <<>> THEN <<<<k, v>>>>
  ELSE IF CaseInsensitiveLess(k, headers[1][1]) THEN <<<<k, v>>>> \o headers
  ELSE IF CaseInsensitiveLess(headers[1][1], k)
  THEN <<headers[1]>> \o insert_or_assign(Tail(headers), k, v)
  ELSE <<<<headers[1][1], v>>>> \o Tail(headers)

\* headers.find(k)
header(headers, k) ==
  {i \in 1..Len(headers) : CaseInsensitiveEqual(headers[i][1], k)}

content_length == <<"c", "o", "n", "t", "e", "n", "t", "-",
                    "l", "e", "n", "g", "t", "h">>

HTTPRequest == [method |-> <<>>, uri |-> <<>>, headers |-> <<>>, body |-> <<>>]

\* ---------------------------------------------------------------- write_to
RECURSIVE write_headers(_, _)
write_headers(headers, i) ==
  IF i > Len(headers) THEN <<>>
  ELSE (IF CaseInsensitiveEqual(headers[i][1], content_length) THEN <<>>
        ELSE headers[i][1] \o <<":", " ">> \o headers[i][2] \o CRLF)
       \o write_headers(headers, i + 1)

\* HTTPRequest::write_to: the bytes given to fputs (s, then body).
write_to(req) ==
  (IF req.method = <<>> THEN <<"<", "e", "m", "p", "t", "y", ">">> ELSE req.method)
  \o <<" ">>
  \o (IF req.uri = <<>> THEN <<"<", "e", "m", "p", "t", "y", ">">> ELSE req.uri)
  \o <<" ">> \o HTTP11 \o CRLF
  \o write_headers(req.headers, 1)
  \o (IF req.body = <<>> THEN CRLF
      ELSE content_length \o <<":", " ">> \o to_string(Len(req.body)) \o CRLF)
  \o req.body

\* ---------------------------------------------------------------- read_from
\* A connection being read: the bytes sent, the position of the next one, and
\* whether the peer has closed behind them.  At the end of the bytes a read
\* gets the hang-up of a closed peer, and waits without end for an open one.
Connection(data, closed) == [data |-> data, pos |-> 1, closed |-> closed]

\* getline(sched, f, delim) of epoll.hpp
RECURSIVE getline_delim(_, _, _)
getline_delim(f, delim, s) ==
  IF ends_with(s, delim)
  THEN [f |-> f, result |-> SubSeq(s, 1, Len(s) - Len(delim)), hup |-> FALSE,
        waits |-> FALSE]
  ELSE IF f.pos > Len(f.data)
  THEN [f |-> f, result |-> s, hup |-> f.closed, waits |-> ~f.closed]
  ELSE getline_delim([f EXCEPT !.pos = @ + 1], delim, Append(s, f.data[f.pos]))

\* read(sched, f, buf): buf.size() bytes, fewer with the hang-up.
read(f, n) ==
  LET got == Least(n, Len(f.data) - f.pos + 1)
  IN  [f |-> [f EXCEPT !.pos = @ + got],
       result |-> SubSeq(f.data, f.pos, f.pos + got - 1),
       hup |-> got < n /\ f.closed, waits |-> got < n /\ ~f.closed]

Parsed(status, what, req, f) ==
  [status |-> status, what |-> what, req |-> req, f |-> f]

\* if (auto p = headers.find("content-length"); p != headers.end())
read_body(f, req) ==
  LET p == header(req.headers, content_length) IN
  IF p = {} THEN Parsed("ok", "", req, f)
  ELSE LET len == stoi(req.headers[CHOOSE i \in p : TRUE][2], 1, 0)
           res == read(f, len)
       IN  IF len < 0 THEN Parsed("throw", "stoi", req, f)
           ELSE IF res.waits THEN Parsed("waits", "", req, res.f)
           ELSE IF res.hup
           THEN Parsed("throw", "premature EOF", req, res.f)
           ELSE Parsed("ok", "", [req EXCEPT !.body = res.result], res.f)

\* The loop over the header lines.
RECURSIVE read_headers(_, _)
read_headers(f, req) ==
  LET line  == getline_delim(f, CRLF, <<>>)
      i     == find(line.result, <<":">>, 0)
      field_name == substr(line.result, 0, i)
      j     == CHOOSE j \in (i + 1)..Len(line.result) :
                 /\ \A k \in (i + 1)..(j - 1) : isspace(line.result[k + 1])
                 /\ j < Len(line.result) => ~isspace(line.result[j + 1])
      field_value == pop_spaces(substr(line.result, j, npos))
  IN  IF line.waits THEN Parsed("waits", "", req, line.f)
      ELSE IF line.hup THEN Parsed("throw", "premature EOF", req, line.f)
      ELSE IF req.headers # <<>> /\ line.result = <<>>
      THEN read_body(line.f, req)
      ELSE IF i = npos THEN Parsed("throw", "cannot find ':'", req, line.f)
      ELSE IF \E k \in 1..Len(field_name) :
                ~isalnum(field_name[k]) /\ field_name[k] \notin {"_", "-"}
      THEN Parsed("throw", "illegal characters", req, line.f)
      ELSE IF field_value = <<>>
      THEN Parsed("throw", "empty field value", req, line.f)
      ELSE read_headers(line.f,
                        [req EXCEPT !.headers =
                           insert_or_assign(@, field_name, field_value)])

\* HTTPRequest::read_from
read_from(f) ==
  LET first  == getline_delim(f, CRLF, <<>>)
      line   == pop_spaces(first.result)
      m      == extract(line, <<>>)
      u      == extract(m.rest, <<>>)
      req    == [HTTPRequest EXCEPT !.method = m.word, !.uri = u.word]
  IN  IF first.waits THEN Parsed("waits", "", HTTPRequest, first.f)
      ELSE IF first.hup \/ ~ends_with(line, HTTP11)
      THEN Parsed("throw", "cannot find \"HTTP/1.1\"", HTTPRequest, first.f)
      ELSE IF http_method(req.method) = INVALID
      THEN Parsed("throw", "invalid http method", req, first.f)
      ELSE read_headers(first.f, req)

\* ---------------------------------------------------------------- handle_request
home    == <<"/", "h", "o", "m", "e">>
sleep   == <<"/", "s", "l", "e", "e", "p">>
repeat  == <<"/", "r", "e", "p", "e", "a", "t">>
seconds == <<"s", "e", "c", "o", "n", "d", "s">>
count   == <<"c", "o", "u", "n", "t">>

\* create_router(): handlers 1..4 for GET /, /home, /sleep, /repeat
create_router ==
  route(route(route(route(HTTPRouter, GET, <<"/">>, 1).root,
                    GET, home, 2).root,
              GET, sleep, 3).root,
        GET, repeat, 4).root

HTTPResponse(status, headers, body) ==
  [status |-> status, headers |-> headers, body |-> body]

\* uri.params.at(key): the values of the key (none: std::out_of_range)
at(params, key) == {p[2] : p \in {q \in params : q[1] = key}}

\* co_await r(req) for the handlers of create_router: the response, or the
\* exception that leaves the handler.
call(h, req) ==
  LET params == ParsedURI_from(req.uri).params
      value(key) == CHOOSE v \in at(params, key) : TRUE
  IN  CASE h = 1 -> [threw |-> FALSE,
                     res |-> HTTPResponse(302, {<<"Location", "/home">>}, <<>>)]
        [] h = 2 -> [threw |-> FALSE,
                     res |-> HTTPResponse(200, {<<"Content-Type", "text/html">>},
                                          <<"<h1>Hello, World!</h1>">>)]
        [] h = 3 -> IF at(params, seconds) = {} \/ stoi(value(seconds), 1, 0) < 0
                    THEN [threw |-> TRUE, res |-> HTTPResponse(0, {}, <<>>)]
                    ELSE [threw |-> FALSE,
                          res |-> HTTPResponse(200, {<<"Content-Type", "text/html">>},
                                               <<"<h1>Hello, World!</h1>">>)]
        [] h = 4 -> IF at(params, count) = {} \/ stoi(value(count), 1, 0) < 0
                    THEN [threw |-> TRUE, res |-> HTTPResponse(0, {}, <<>>)]
                    ELSE [threw |-> FALSE,
                          res |-> HTTPResponse(200, {<<"Content-Type", "text/html">>},
                                               [i \in 1..stoi(value(count), 1, 0) |-> "@"])]

Handled(end, called, res) == [end |-> end, called |-> called, res |-> res]

\* handle_request: what the connection task did with the bytes of f: the
\* response it wrote ("answered"), an exception it caught and logged
\* ("logged"), or a wait without end for more bytes ("waits").
handle_request_on(f) ==
  LET r    == read_from(f)
      none == HTTPResponse(0, {}, <<>>)
      fnd  == find_route_sv(create_router, r.req.method, r.req.uri)
      out  == call(fnd.h, r.req)
  IN  IF r.status = "waits" THEN Handled("waits", nullptr, none)
      ELSE IF r.status = "throw" THEN Handled("logged", nullptr, none)
      ELSE IF fnd.threw # "none" THEN Handled("logged", nullptr, none)
      ELSE IF fnd.h = nullptr
      THEN Handled("answered", nullptr,
                   HTTPResponse(404, {<<"Content-Type", "application/json">>},
                                <<"{ \"message\": \"Cannot find a route.\" }">>))
      ELSE IF out.threw THEN Handled("logged", fnd.h, none)
      ELSE Handled("answered", fnd.h, out.res)

\* ---------------------------------------------------------------- HTTP runs
RequestMethods == {<<"G", "E", "T">>, <<"P", "O", "S", "T">>}

RequestUris == {<<"/">>, <<"/", "n", "o", "p", "e">>, home,
                repeat \o <<"?">> \o count \o <<"=", "2">>}

HeaderFields == {<<<<"H", "o", "s", "t">>, <<"a">>>>,
                 <<<<"a", "c", "c", "e", "p", "t">>, <<"*", "/", "*">>>>}

RECURSIVE HeadersOf(_)
HeadersOf(F) ==
  IF F = {} THEN <<>>
  ELSE LET e == CHOOSE e \in F : TRUE
       IN  insert_or_assign(HeadersOf(F \ {e}), e[1], e[2])

Requests ==
  {[method |-> m, uri |-> u, headers |-> HeadersOf(F), body |-> b] :
     m \in RequestMethods, u \in RequestUris,
     F \in {F \in SUBSET HeaderFields : Cardinality(F) <= MaxHeaders},
     b \in SeqsUpTo({"x"}, MaxBody)}

\* What a client sends for a request (RFC 7230, 3): the request line, the
\* header fields, Content-Length with a body, the empty line, the body.
RECURSIVE FieldLines(_, _)
FieldLines(headers, i) ==
  IF i > Len(headers) THEN <<>>
  ELSE headers[i][1] \o <<":", " ">> \o headers[i][2] \o CRLF
       \o FieldLines(headers, i + 1)

Message(req) ==
  req.method \o <<" ">> \o req.uri \o <<" ">> \o HTTP11 \o CRLF
  \o FieldLines(req.headers, 1)
  \o (IF req.body = <<>> THEN <<>>
      ELSE <<"C", "o", "n", "t", "e", "n", "t", "-", "L", "e", "n", "g", "t", "h",
             ":", " ">> \o to_string(Len(req.body)) \o CRLF)
  \o CRLF \o req.body

NoParse  == Parsed("none", "", HTTPRequest, Connection(<<>>, FALSE))
NoAnswer == Handled("none", nullptr, HTTPResponse(0, {}, <<>>))

InitHttp ==
  /\ InitWith(Body(TRUE, <<Ret(<<"void">>)>>), "run_task")
  /\ net = NoNet /\ spawned_tasks = <<>> /\ io = [side |-> "off"]
  /\ files = NotUsed /\ router = NotUsed
  /\ \E R \in Requests, closed \in BOOLEAN :
       \/ http = [on |-> TRUE, R |-> R, by |-> "write_to", sent |-> FALSE,
                  f |-> Connection(<<>>, closed), parsed |-> NoParse,
                  handled |-> NoAnswer]
       \/ http = [on |-> TRUE, R |-> R, by |-> "client", sent |-> TRUE,
                  f |-> Connection(Message(R), closed), parsed |-> NoParse,
                  handled |-> NoAnswer]

HttpFrame == <<SchedulerVars, io, files, router>>

\* co_await R.write_to(sched, f) on the sending side
WriteTo ==
  /\ http.on /\ ~http.sent
  /\ http' = [http EXCEPT !.sent = TRUE, !.f.data = write_to(http.R)]
  /\ UNCHANGED HttpFrame

Unread == http.on /\ http.sent /\ http.f.pos = 1

\* HTTPRequest req; co_await req.read_from(sched, f) on the receiving side
ReadFrom ==
  /\ Unread
  /\ LET r == read_from(http.f)
     IN  http' = [http EXCEPT !.parsed = r, !.f = r.f]
  /\ UNCHANGED HttpFrame

\* handle_request on the receiving side
HandleRequest ==
  /\ Unread
  /\ http' = [http EXCEPT !.handled = handle_request_on(http.f),
                          !.f = read_from(http.f).f]
  /\ UNCHANGED HttpFrame

NextHttp == WriteTo \/ ReadFrom \/ HandleRequest

SpecHttp == InitHttp /\ [][NextHttp]_vars

\* ================================================================ claims
Promises == {f \in FrameIds : fr[f].kind \in {"task", "timed", "epoll",
                                               "when_all", "when_any"}}
Completed(f) == fr[f].exit # <<"none">>

\* C1: a task whose body returned v has result() = v, and whoever awaited it
\* received v; a task whose body threw e (itself or through a sub-task it
\* awaited without a try) has result() re-raise e, and so has whoever awaited
\* it; run_task hands the root's exception to its caller only when it returns,
\* after the loop.
C1_ResultIsBodyExit ==
  /\ \A f \in Promises :
       Completed(f) => Result(fr[f].res, fr[f].void) = fr[f].exit
  /\ \A p \in FrameIds :
       LET c == fr[p].got[1] IN
         c # 0 => /\ Completed(c) /\ fr[p].got[2] = fr[c].exit
                  /\ (fr[p].exit[1] = "throw" /\ fr[p].ph = 1)
                       => fr[p].exit = fr[c].exit
  /\ outcome # <<"none">> => mpc = "returned"
  /\ (mpc = "returned" /\ Completed(Root) /\ fr[Root].st # "destroyed")
       => outcome = fr[Root].exit

\* C1 witness: the caller of run_task got the exception that a sub-task of a
\* sub-task of the root threw.
C1_Witness ==
  /\ mpc = "returned" /\ outcome = <<"throw", "e1">>
  /\ fr[Root].from # 0 /\ fr[fr[Root].from].from # 0
  /\ fr[fr[fr[Root].from].from].exit = <<"throw", "e1">>
  /\ fr[fr[fr[Root].from].from].script[1].op = "throw"

WhenAlls == {g \in FrameIds : fr[g].kind = "when_all"}
WhenAnys == {g \in FrameIds : fr[g].kind = "when_any"}
\* The frame was started (first resume) and resumed again after it suspended.
Resumed(g) == fr[g].resumed >= 2
InputsOf(g) == {fr[g].inputs[i] : i \in 1..Len(fr[g].inputs)}

\* What the i-th component of the tuple must be: the value input i returned
\* (Void, the default, for an input of type void).
Component(x) ==
  IF fr[x].exit = <<"ret", <<"void">>>> THEN <<"default">> ELSE fr[x].exit[2]

\* C2: a when_all none of whose inputs threw is resumed only when every input
\* has completed, at most once, and its result is the tuple of the inputs'
\* results in argument order; when run_task has returned and all inputs had
\* completed, it has been resumed exactly once.
C2_WhenAllAfterLast ==
  \A g \in WhenAlls :
    /\ fr[g].resumed <= 2
    /\ (Resumed(g) /\ fr[g].gexc = <<"none">>) =>
         /\ \A x \in InputsOf(g) : fr[x].exit[1] = "ret"
         /\ \A i \in 1..Len(fr[g].inputs) :
              fr[g].gres[i] = Component(fr[g].inputs[i])
    /\ fr[g].exit[1] = "ret" =>
         fr[g].exit[2] = <<"tuple", [i \in 1..Len(fr[g].inputs) |->
                                       Component(fr[g].inputs[i])]>>
    /\ (mpc = "returned" /\ \A x \in InputsOf(g) : fr[x].exit[1] = "ret")
         => Resumed(g) /\ fr[g].resumed = 2

\* C2 witness: two inputs woken by two timers at different times, the second
\* argument first, and the tuple is (1, 2).
C2_Witness ==
  \E g \in WhenAlls :
    /\ fr[g].exit[1] = "ret"
    /\ fr[g].exit[2][2] = << <<"int", 1>>, <<"int", 2>> >>
    /\ Len(hist.fired) = 2 /\ hist.fired[1].at < hist.fired[2].at
    /\ fr[fr[g].inputs[2]].from = hist.fired[1].f

\* C3 (as claimed): when an input of when_all throws, the combining task is
\* not resumed before every other input has run to completion.
C3_ParentWaitsForAll ==
  \A g \in WhenAlls : Resumed(g) => \A x \in InputsOf(g) : Completed(x)

\* C4: when_any is resumed when exactly one input has finished; if that input
\* returned, the result is the variant (its position, its value); if it threw,
\* when_any fails with its exception.
C4_WhenAnyFirst ==
  \A g \in WhenAnys :
    /\ (fr[g].st = "running" /\ fr[g].ph = 1) =>
         /\ Cardinality({i \in 1..Len(fr[g].inputs) :
                           Completed(fr[g].inputs[i])}) = 1
         /\ \A i \in 1..Len(fr[g].inputs) :
              LET x == fr[g].inputs[i] IN
                /\ fr[x].exit[1] = "ret" =>
                     /\ fr[g].gindex = i
                     /\ fr[g].gres = <<"variant", i, fr[x].exit[2]>>
                     /\ fr[g].gexc = <<"none">>
                /\ fr[x].exit[1] = "throw" =>
                     /\ fr[g].gexc = <<"exc", fr[x].exit[2]>>
                     /\ fr[g].gindex = InvalidIndex
    /\ fr[g].exit[1] = "ret" =>
         /\ fr[g].exit[2] = fr[g].gres
         /\ fr[g].gres[2] = fr[g].gindex
         /\ fr[fr[g].inputs[fr[g].gindex]].exit[1] = "ret"
    /\ fr[g].exit[1] = "throw" =>
         \E x \in InputsOf(g) : fr[x].exit = fr[g].exit

\* C4 witness: two sleeping inputs, the second argument has the earlier
\* deadline and wins: the variant is (2, 2) and the first has not finished.
C4_Witness ==
  \E g \in WhenAnys :
    /\ fr[g].exit[1] = "ret"
    /\ fr[g].exit[2] = <<"variant", 2, <<"int", 2>> >>
    /\ Len(hist.fired) = 1 /\ hist.fired[1].at > 0
    /\ ~Completed(fr[g].inputs[1])
    /\ fr[fr[g].inputs[1]].kind = "task"

\* C5: the timer scheduler resumes in non-decreasing deadline order and never
\* before the deadline; the entry it resumes is the one with the least
\* deadline of those pending, and among equal deadlines the one with the least
\* address.
C5_DeadlineOrder ==
  /\ \A i \in 1..Len(hist.fired) : hist.fired[i].expire <= hist.fired[i].at
  /\ \A i \in 1..Len(hist.fired) : \A j \in i..Len(hist.fired) :
       hist.fired[i].expire <= hist.fired[j].expire
  /\ \A i \in 1..Len(hist.fired) :
       LET e == hist.fired[i] IN
         \A b \in e.pending \ {e.f} :
           \/ e.expire < fr[b].expire
           \/ /\ e.expire = fr[b].expire
              /\ flip \in {"asc", "desc"}
              /\ flip = "asc" => e.f < b
              /\ flip = "desc" => e.f > b

\* C5 witness: the sleep that was registered second has the earlier deadline
\* and is resumed first.
C5_Witness ==
  /\ Len(hist.fired) = 2
  /\ hist.fired[1].expire < hist.fired[2].expire
  /\ hist.fired[1].f > hist.fired[2].f

\* C6 (as claimed): the timer scheduler never resumes the same entry twice.
C6_TimerResumedOnce ==
  \A i \in 1..Len(hist.fired) : \A j \in 1..Len(hist.fired) :
    i # j => hist.fired[i].f # hist.fired[j].f

\* C7 (as claimed): a destroyed frame has no timer entry and no fd
\* registration, and no scheduler step resumes it.
C7_DroppedIsGone ==
  /\ \A f \in FrameIds : fr[f].st = "destroyed" =>
       /\ f \notin timed_coros
       /\ \A fd \in AllFds : kernel[fd].ptr # f
  /\ hist.schedBad = 0

\* C8: registered_cnt_ is the number of entries of the interest list, never
\* negative, zero exactly when the list is empty, and it is the number of
\* registrations minus the number of deregistrations.
C8_CounterBalanced ==
  /\ registered_cnt = Cardinality(Registered)
  /\ registered_cnt >= 0
  /\ (registered_cnt = 0) <=> (Registered = {})
  /\ registered_cnt = hist.adds - hist.dels

\* C8 witness: two registrations were made and both were undone.
C8_Witness == hist.adds = 2 /\ hist.dels = 2 /\ registered_cnt = 0

\* C9: one EpollScheduler::run has called resume, in order and once each, on
\* the promises of the events reported so far (none when the wait timed out or
\* was interrupted), and a wait_file_event task that ran returns the mask
\* reported for it.
C9_BatchResumesReported ==
  /\ mpc = "batch" =>
       hist.batch = [i \in 1..(ei - 1) |-> ebuf[i].ptr]
  /\ \A i \in 1..Len(ebuf) : \A j \in 1..Len(ebuf) :
       i # j => ebuf[i].ptr # ebuf[j].ptr
  /\ \A f \in FrameIds : fr[f].kind = "epoll" =>
       /\ fr[f].exit[1] = "ret" => fr[f].exit[2] = <<"mask", hist.reported[f]>>
       /\ fr[f].resumed >= 2 => hist.reported[f] # {}
       /\ fr[f].resumed <= 2

\* C9 witness: a batch of two events has been dispatched in the reported
\* order, fd 2 first, and both tasks ran.
C9_Witness ==
  /\ mpc = "batch" /\ Len(ebuf) = 2 /\ ei = 3 /\ ub = "none"
  /\ ebuf[1].fd = 2
  /\ \A i \in 1..2 : fr[ebuf[i].ptr].exit[1] = "ret"

\* C10: a wait on an fd that is already registered fails with the epoll_ctl
\* error in the waiting task, which is not left suspended; the registration
\* that was there stays, with its awaiter, as long as its own task is
\* suspended, and the counter stays the number of registrations.
C10_SecondAwaitFails ==
  /\ \A f \in hist.failedAdd :
       /\ fr[f].exit = <<"throw", SysErr>>
       /\ fr[f].st \in {"done", "destroyed"}
       /\ fr[f].awaiter = "null"
       /\ kernel[fr[f].fd].ptr # f
       /\ LET p == fr[f].prev IN
            (fr[p].from = f /\ fr[p].st \in {"done", "destroyed"}
               /\ fr[p].kind = "task")
              => \/ fr[p].exit = <<"throw", SysErr>>
                 \/ fr[p].acc = <<"caught", SysErr>>
  /\ \A h \in FrameIds :
       (fr[h].kind = "epoll" /\ fr[h].st = "suspended")
         => /\ kernel[fr[h].fd] = [ptr |-> h, events |-> fr[h].events]
            /\ fr[h].awaiter = "set"
  /\ registered_cnt = Cardinality(Registered)

\* C10 witness: the failed waiter has been destroyed while the first waiter
\* on the same fd is still suspended and registered.
C10_Witness ==
  \E f \in hist.failedAdd : \E h \in FrameIds :
    /\ fr[f].st = "destroyed"
    /\ fr[h].kind = "epoll" /\ fr[h].st = "suspended" /\ fr[h].fd = fr[f].fd
    /\ kernel[fr[f].fd].ptr = h
    /\ registered_cnt = 1

\* ---------------------------------------------------------------- C11
\* C11: AsyncLoop::run returns exactly when no timer entry is pending and no fd
\* is registered: after its return both schedulers are empty, a turn of the
\* loop that finds both empty is the last one and a turn that finds work is
\* not, and once run_task's loop has returned the root task is done.
LoopReturned == mpc \in {"await_resume", "returned"}

NoWork == timed_coros = {} /\ Registered = {}

C11_LoopReturnsWhenIdle ==
  /\ [](LoopReturned => /\ NoWork
                        /\ mode = "run_task" => fr[Root].st = "done")
  /\ [][mpc = "branch" /\ mpc' # "branch" =>
          (mpc' = "await_resume" <=> NoWork)]_vars

C11_Witness ==
  /\ mpc = "returned" /\ mode = "run_task"
  /\ fr[Root].st = "done"
  /\ hist.fired # <<>> /\ hist.adds > 0
  /\ NoWork

\* ---------------------------------------------------------------- C12
\* C12: while the handler of one connection sleeps (its timer pending), the
\* loop goes on serving: with a timer pending its turn is an epoll_wait, never
\* a sleep of the thread, and for a connection j asking for a sleep of
\* route[j] and
\* a connection k that arrives after j and before j's deadline and asks for a
\* route that answers at once, k's handler has finished at the time k arrived,
\* before j's handler finishes, and j's handler finishes at or after its
\* deadline and has finished once the clock is past it.  (The steps of the
\* program take no time here; only waiting does.)
Handler(c) == hist.spawned[c]

Served(c) == c <= Len(hist.spawned) /\ Completed(Handler(c))

Deadline(c) == net.arrive[c] + net.route[c]

Overlap(j, k) ==
  /\ j < k /\ net.route[j] > 0 /\ net.route[k] = 0
  /\ net.arrive[k] < Deadline(j)

C12_ServedWhileSleeping ==
  mode = "server" =>
    /\ mpc = "branch" /\ timed_coros # {} => LoopBranch = "epoll"
    /\ \A j, k \in Clients :
         Overlap(j, k) =>
           /\ Served(k) => fr[Handler(k)].at = net.arrive[k]
           /\ now > net.arrive[k] => Served(k)
           /\ Served(j) => /\ Served(k)
                           /\ fr[Handler(k)].at < fr[Handler(j)].at
                           /\ fr[Handler(j)].at >= Deadline(j)
           /\ now > Deadline(j) => Served(j)

\* The second client connects while the first one's handler is one tick into
\* a sleep of two; both have been answered, the second first.
C12_Witness ==
  /\ mode = "server"
  /\ net.arrive = <<0, 1>> /\ net.route = <<2, 0>>
  /\ Served(1) /\ Served(2)
  /\ fr[Handler(2)].at = 1 /\ fr[Handler(1)].at = 2

\* ---------------------------------------------------------------- C13
\* C13: result() called on a task that has not completed (created or
\* suspended) fails with the "value is not set" error and does not return
\* normally, whatever the task's result type, void included.
C13_ResultNotReady ==
  hist.peek[1] \in {"created", "suspended"} => hist.peek[2] = <<"throw", "not_set">>

\* ---------------------------------------------------------------- C14
\* C14: no step of the runtime resumes a frame that has completed; awaiting a
\* task that is already done (awaited a second time, or run before) leaves its
\* frame alone.
C14_CompletedNotResumed == ub # "resume_done"

\* ---------------------------------------------------------------- C15
\* C15: starting an awaited task and going back to the awaiting one when it
\* completes replace the running coroutine and add no native resume()
\* activation: the only activations above the loop's are the await_suspend
\* calls of when_all / when_any awaiters, one for each, whatever the number of
\* tasks that are waiting for the task they awaited.
AwaitingTasks == {f \in FrameIds : fr[f].kind = "task" /\ fr[f].st = "suspended"
                                   /\ fr[f].ph = 1}

C15_NoNestedResume ==
  /\ \A i \in 1..Len(nstack) : nstack[i].g \in WhenAlls \cup WhenAnys
  /\ \A i, j \in 1..Len(nstack) : nstack[i].g = nstack[j].g => i = j

C15_Witness ==
  /\ Cardinality(AwaitingTasks) = 2
  /\ cur # 0 /\ fr[cur].kind = "task" /\ fr[cur].resumed = 2
  /\ fr[cur].prev \in AwaitingTasks
  /\ nstack = <<>>

\* ---------------------------------------------------------------- C16
\* A timeout: a when_any whose second input is a sleep and whose first input,
\* op, is an fd wait or a task suspended in one.  OpWait is op's
\* wait_file_event frame.
OpWait(g) ==
  LET x == fr[g].inputs[1] IN IF fr[x].kind = "epoll" THEN x ELSE fr[x].from

IsTimeout(g) ==
  /\ Len(fr[g].inputs) = 2
  /\ fr[fr[g].inputs[2]].kind = "timed"
  /\ OpWait(g) # 0 /\ fr[OpWait(g)].kind = "epoll"

\* The sleep has won, the awaiting task has gone past the co_await expression
\* (the when_any temporary is gone) and runs or waits further on, and no event
\* for op has arrived since.
TimeoutWon(g) ==
  /\ IsTimeout(g)
  /\ fr[g].exit[1] = "ret" /\ fr[g].gindex = 2
  /\ fr[g].st = "destroyed"
  /\ fr[fr[g].prev].st \in {"running", "suspended"}
  /\ fr[OpWait(g)].resumed = 1

OpRegistered(g) ==
  /\ fr[OpWait(g)].st = "suspended"
  /\ kernel[fr[OpWait(g)].fd].ptr = OpWait(g)

\* C16 as stated: when the sleep of when_any(op, sleep_until(deadline)) has won
\* and the awaiting task has been resumed and goes on, op's fd is still
\* registered with the readiness scheduler.
C16_LoserStaysRegistered ==
  \A g \in WhenAnys : TimeoutWon(g) => OpRegistered(g)

\* C16, amended: when_any itself cancels nothing.  An op that is a named task
\* outliving the co_await expression is still suspended and registered after
\* the awaiting task has gone on; an op that is a temporary of the expression
\* is destroyed at its end, and its destructor removes the registration.
C16_LoserRegisteredWhileAlive ==
  \A g \in WhenAnys :
    TimeoutWon(g) =>
      IF fr[fr[g].inputs[1]].st = "destroyed"
      THEN /\ fr[OpWait(g)].st = "destroyed"
           /\ kernel[fr[OpWait(g)].fd].ptr # OpWait(g)
      ELSE OpRegistered(g)

C16_Witness ==
  \E g \in WhenAnys :
    /\ TimeoutWon(g)
    /\ fr[fr[g].inputs[1]].st = "suspended"
    /\ OpRegistered(g)
    /\ fr[fr[g].prev].st = "suspended"

\* ---------------------------------------------------------------- C17
\* C17: bytes that are pending when the hang-up is reported are returned
\* first: a call of the reader ends in EOF only when every byte the peer sent
\* has been read from the fd.
C17_BytesBeforeEOF ==
  (io.side = "in" /\ ~io.last.ok) => io.last.left = <<>>

\* ---------------------------------------------------------------- C18
\* Where the delimiter d first occurs in t (0: nowhere).
Occurs(t, d, p) == p + Len(d) - 1 <= Len(t) /\ SubSeq(t, p, p + Len(d) - 1) = d

FirstOccurrence(t, d) ==
  IF \E p \in 1..Len(t) : Occurs(t, d, p)
  THEN CHOOSE p \in 1..Len(t) :
         Occurs(t, d, p) /\ \A q \in 1..p - 1 : ~Occurs(t, d, q)
  ELSE 0

\* C18: a getline(d) that returns gives the bytes before the first occurrence
\* of d in what was unread, and leaves the read position just after that
\* occurrence, wherever the refills fall.
C18_GetlineUpToDelimiter ==
  LET c == io.last
      t == Rest(io.data, c.from)
      p == FirstOccurrence(t, c.arg)
  IN (io.side = "in" /\ c.fn = "getline" /\ c.ok) =>
       /\ p # 0
       /\ c.out = SubSeq(t, 1, p - 1)
       /\ c.to = c.from + p - 1 + Len(c.arg)

\* ---------------------------------------------------------------- C19
\* C19: a getn(n) that returns gives the n bytes of the stream that follow the
\* place where the call before it stopped and stops right after them, wherever
\* the refills fall; getn(0) gives the empty string and reads and consumes
\* nothing.
C19_GetnSegments ==
  LET c == io.last IN
  io.side = "in" =>
    /\ c.from = c.follows
    /\ (c.fn = "getn" /\ c.ok) =>
         /\ c.out = SubSeq(io.data, c.from + 1, c.from + c.arg[1])
         /\ c.to = c.from + c.arg[1]
         /\ c.arg[1] = 0 => c.left = c.before

\* C19 witness: after one byte has been consumed, getn(3) over a buffer of two
\* bytes whose second refill finds a single byte: the call crosses two refill
\* boundaries.
C19_Witness ==
  /\ io.side = "in" /\ io.capacity_ = 2 /\ io.cuts = {3}
  /\ io.last.fn = "getn" /\ io.last.arg = <<3>> /\ io.last.ok
  /\ io.last.from = 1 /\ io.last.out = <<"b", "a", "b">>

\* ---------------------------------------------------------------- C20
IsPrefix(s, t) == Len(s) <= Len(t) /\ s = SubSeq(t, 1, Len(s))

\* C20: the bytes handed to the underlying writer are the arguments of the
\* putchar / puts calls in call order: with no failed write they are, with the
\* bytes still buffered, all the arguments; after a flush() that returned
\* nothing is buffered and the writer has them all; a failed write leaves a
\* prefix.
C20_WriterGetsArguments ==
  io.side = "out" =>
    /\ IsPrefix(io.sink, io.data)
    /\ ~io.failed => io.sink \o SubSeq(io.buffer_, 1, io.end_) = io.data
    /\ (~io.failed /\ io.last.fn = "flush") => io.end_ = 0 /\ io.sink = io.data

\* C20 witness: with one byte pending in a buffer of two, a puts of three
\* bytes: the pending byte is flushed, then the slice is written directly, its
\* first write taking one byte only.
C20_Witness ==
  /\ io.side = "out" /\ ~io.failed /\ io.capacity_ = 2
  /\ io.last.fn = "puts" /\ Len(io.last.arg) = 3 /\ io.last.pending = 1
  /\ io.last.w = 1
  /\ io.end_ = 0 /\ io.sink = io.data /\ Len(io.data) = 4

C22_ClosedOnceByOwner ==
  files.on =>
    /\ files.ub = "none"
    /\ \A fd \in FileFds :
         /\ files.closes[fd] <= 1
         /\ fd \in files.owned =>
              IF files.closes[fd] = 1 \/ fd \in files.released
              THEN Owners(files, fd) = {}
              ELSE Cardinality(Owners(files, fd)) = 1

\* ---------------------------------------------------------------- C23, C24
\* The header fields of a request without the case of their names and without
\* their order.
Fields(headers) ==
  {<<[i \in 1..Len(headers[k][1]) |-> tolower(headers[k][1][i])], headers[k][2]>> :
     k \in 1..Len(headers)}

\* C23: the bytes that write_to produces for a request R are parsed by
\* read_from into a request with R's method, target, header fields and body.
C23_RoundTrip ==
  (http.on /\ http.by = "write_to" /\ http.parsed.status # "none") =>
    /\ http.parsed.status = "ok"
    /\ http.parsed.req.method = http.R.method
    /\ http.parsed.req.uri = http.R.uri
    /\ Fields(http.parsed.req.headers) = Fields(http.R.headers)
    /\ http.parsed.req.body = http.R.body

\* The routes of create_router: method and segments of the path.
Routes == {<<GET, Segments(u, 1, <<>>)>> : u \in {<<"/">>, home, sleep, repeat}}

\* C24: a request line followed directly by the empty line is parsed, with no
\* header field and an empty body; handle_request answers it with 404 and
\* Content-Type application/json, calling no handler, when no route has its
\* method and path.
C24_NoHeaderFields ==
  (/\ http.on /\ http.by = "client"
   /\ http.R.headers = <<>> /\ http.R.body = <<>>) =>
    /\ http.parsed.status # "none" =>
         /\ http.parsed.status = "ok"
         /\ http.parsed.req.headers = <<>>
         /\ http.parsed.req.body = <<>>
    /\ (/\ http.handled.end # "none"
        /\ <<http_method(http.R.method), Segments(http.R.uri, 1, <<>>)>>
             \notin Routes) =>
         /\ http.handled.end = "answered"
         /\ http.handled.called = nullptr
         /\ http.handled.res.status = 404
         /\ <<"Content-Type", "application/json">> \in http.handled.res.headers

\* ---------------------------------------------------------------- C25..C29
\* The last call was a lookup that returned.
LookedUp ==
  /\ router.on
  /\ router.op.fn \in {"find_route", "find_route_sv"}
  /\ router.op.threw = "none"

\* Registration i is the last one made for its method and path.
LatestFor(i) ==
  \A j \in (i + 1)..Len(router.log) :
    ~(/\ router.log[j].method = router.log[i].method
      /\ router.log[j].path = router.log[i].path)

C26_ExactBeatsPrefix ==
  LookedUp =>
    \A i \in 1..Len(router.log) :
      (/\ router.log[i].fn = "route"
       /\ valid_http_method(router.log[i].method, TRUE)
       /\ router.log[i].method = router.op.method
       /\ router.log[i].path = Segments(router.op.uri, 1, <<>>)
       /\ \A j \in (i + 1)..Len(router.log) :
            ~(/\ router.log[j].fn = "route"
              /\ router.log[j].method = router.log[i].method
              /\ router.log[j].path = router.log[i].path))
      => router.op.h = router.log[i].handler

\* C27: the handler of an exact route is returned only for the path it was
\* registered with, never for a path with further segments.
C27_ExactOnlyForItsPath ==
  (/\ LookedUp /\ router.op.h # nullptr
   /\ router.log[router.op.h].fn = "route"
   /\ valid_http_method(router.log[router.op.h].method, TRUE))
    => router.log[router.op.h].path = Segments(router.op.uri, 1, <<>>)

\* The nodes of the trie on the way along the segments of a path that have a
\* handler for the method or for ANY, by their depth.
Along(root, method, segs) ==
  {k \in 0..Len(segs) :
     /\ \A j \in 0..k : SubSeq(segs, 1, j) \in DOMAIN root
     /\ \/ root[SubSeq(segs, 1, k)][method] # nullptr
        \/ root[SubSeq(segs, 1, k)][ANY] # nullptr}

Deepest(K) == CHOOSE k \in K : \A j \in K : j <= k

\* C28: find_route returns the handler of the deepest node along the path that
\* has one for the method or for ANY, at that node the method's own handler
\* before the ANY handler, and null when no node along the path has one.
C28_LongestPrefix ==
  LookedUp =>
    LET segs == Segments(router.op.uri, 1, <<>>)
        K    == Along(router.root, router.op.method, segs)
        node == router.root[SubSeq(segs, 1, Deepest(K))]
    IN  IF K = {} THEN router.op.h = nullptr
        ELSE router.op.h = IF node[router.op.method] # nullptr
                           THEN node[router.op.method] ELSE node[ANY]

C28_Witness ==
  /\ LookedUp
  /\ Len(router.log) = 2
  /\ router.log[1] = [fn |-> "route_prefix", method |-> GET, path |-> <<>>,
                      handler |-> 1]
  /\ router.log[2] = [fn |-> "route_prefix", method |-> ANY,
                      path |-> <<<<"a">>>>, handler |-> 2]
  /\ router.op.method = GET
  /\ router.op.uri = <<"/", "a", "/", "a">>
  /\ router.op.h = 2

\* C29: a registration with the method INVALID ends in an error, no route is
\* stored for it and no lookup returns its handler.
C29_InvalidMethodRejected ==
  router.on =>
    /\ (/\ router.op.fn \in {"route", "route_sv", "route_prefix"}
        /\ router.op.method = INVALID) => router.op.threw # "none"
    /\ \A i \in 1..Len(router.log) : router.log[i].method # INVALID
    /\ LookedUp /\ router.op.h # nullptr
         => router.log[router.op.h].method # INVALID

\* ---------------------------------------------------------------- C30
\* The tasks that spawn_task keeps.
Stored == {spawned_tasks[i] : i \in DOMAIN spawned_tasks}

Unfinished == {f \in Stored : fr[f].st # "done"}

Failed(c) == c <= Len(hist.spawned) /\ fr[Handler(c)].acc[1] = "caught"

ClientSock(c) == 1 + c

C31_FailureEndsOnlyItsTask ==
  mode = "server" =>
    /\ ub = "none"
    /\ ~Completed(Root) /\ fr[Root].st \in {"created", "running", "suspended"}
    /\ mpc = "branch" => /\ kernel[Listen].ptr # 0
                         /\ fr[kernel[Listen].ptr].prev # 0
                         /\ fr[fr[kernel[Listen].ptr].prev].prev = Root
    /\ \A c \in Clients :
         /\ now > net.arrive[c] => c <= Len(hist.spawned)
         /\ now > Deadline(c) => Served(c)
         /\ Served(c) =>
              /\ fr[Handler(c)].exit = <<"ret", <<"void">>>>
              /\ ClientSock(c) \in net.closed
              /\ Failed(c) <=> net.fail[c] # "none"
              /\ net.fail[c] = "none" => fr[Handler(c)].at = Deadline(c)
              /\ net.fail[c] \in {"malformed", "eof"} =>
                   fr[Handler(c)].at = net.arrive[c]
         /\ ClientSock(c) \in net.closed => c <= Len(hist.spawned)

\* The first connection fails (its handler throws after sleeping), then the
\* second one, which arrived later, is accepted and answered.
C31_Witness ==
  /\ mode = "server"
  /\ net.fail = <<"handler", "none">> /\ net.route[1] > 0
  /\ net.arrive[2] > Deadline(1)
  /\ Served(1) /\ Failed(1) /\ ClientSock(1) \in net.closed
  /\ Served(2) /\ ~Failed(2) /\ ClientSock(2) \in net.closed
  /\ fr[Handler(1)].st = "destroyed"

\* ---------------------------------------------------------------- C32
\* C32: TimedScheduler::run() returns only when no pending entry is due: with
\* nullopt exactly when timed_coros_ is empty, otherwise with a delay d > 0
\* that is the least pending deadline minus the clock, every entry left being
\* a suspended sleep whose deadline is still ahead; in particular an entry
\* that a resumed task inserted during the pass is fired in that pass once
\* the clock has reached its deadline.
C32_RunReturnsNothingDue ==
  [][(mpc = "timed" /\ mpc' = "branch") =>
       /\ (timeout' = None) <=> (timed_coros' = {})
       /\ \A f \in timed_coros' :
            /\ fr'[f].expire > now'
            /\ fr'[f].expire - now' >= timeout'
            /\ fr'[f].st = "suspended"
       /\ timed_coros' # {} =>
            /\ timeout' > 0
            /\ \E f \in timed_coros' : timeout' = fr'[f].expire - now']_vars

\* run() has fired an entry and returns a delay for an entry that the task it
\* resumed inserted afterwards.
C32_Witness ==
  /\ mpc = "branch" /\ timeout # None /\ ub = "none"
  /\ hist.fired # <<>>
  /\ \E f \in timed_coros :
       /\ f \notin Last(hist.fired).pending
       /\ timeout = fr[f].expire - now

\* ---------------------------------------------------------------- C33
\* C33 (as claimed): the continuation of a task is stored at most once in the
\* task's lifetime; a later co_await on the same task does not store it again.
\* (`linked' counts the calls of TaskAwaiter::await_suspend on the frame.)
C33_ContinuationSetOnce == \A f \in FrameIds : fr[f].linked <= 1

\* ---------------------------------------------------------------- C34
\* C34: a sleep frame whose tree_ is not null is in timed_coros_; every
\* handle in timed_coros_ is a sleep frame that has not been destroyed and
\* whose tree_ is set; a sleep that is awaited when its deadline has passed
\* completes at once: it is never in the set, never fired by the scheduler,
\* and its tree_ stays null.  (timed_coros_ is a std::set ordered by deadline
\* and address: it holds a handle at most once.)
Sleeps == {f \in FrameIds : fr[f].kind = "timed"}

C34_TimerSetMatchesBackPointers ==
  /\ [](/\ \A f \in Sleeps : fr[f].tree => f \in timed_coros
        /\ \A f \in timed_coros :
             /\ f \in Sleeps /\ fr[f].tree
             /\ fr[f].st \in {"suspended", "running", "done"}
        /\ \A f \in Sleeps :
             (Completed(f) /\ fr[f].resumed = 1) =>
               /\ ~fr[f].tree /\ f \notin timed_coros
               /\ \A i \in 1..Len(hist.fired) :
                    /\ hist.fired[i].f # f
                    /\ f \notin hist.fired[i].pending)
  /\ [][\A f \in Sleeps :
          (fr[f].st = "running" /\ fr[f].ph = 0 /\ cur = f /\ fr'[f] # fr[f]) =>
            IF fr[f].expire <= now
            THEN Completed(f)' /\ f \notin timed_coros'
            ELSE fr'[f].st = "suspended" /\ f \in timed_coros']_vars

\* One sleep was awaited with its deadline passed and completed at once, while
\* another one is pending in the set.
C34_Witness ==
  \E f, g \in Sleeps :
    /\ Completed(f) /\ fr[f].resumed = 1 /\ fr[f].st = "destroyed"
    /\ g \in timed_coros /\ fr[g].st = "suspended" /\ fr[g].tree
    /\ hist.fired # <<>>

\* ---------------------------------------------------------------- C35
\* C35 (as claimed): when_all and when_any start their inputs in argument
\* order: an input has begun to execute only if every input before it in the
\* argument list has.
Started(x) == fr[x].resumed >= 1

C35_StartedInArgumentOrder ==
  \A g \in WhenAlls \cup WhenAnys :
    \A i, j \in 1..Len(fr[g].inputs) :
      (i < j /\ Started(fr[g].inputs[j])) => Started(fr[g].inputs[i])

\* ---------------------------------------------------------------- C36
\* C36 (as claimed): a readiness wait made while a timer is pending returns
\* at the latest when the delay that the timer scheduler reported has passed;
\* with no fd registered and a timer pending the loop sleeps for that delay
\* and does not call epoll_wait; and every pending timer is eventually fired
\* or dropped, whether or not an fd ever becomes ready: from some point on no
\* sleep is left waiting in the timer set.
PendingSleeps == {f \in timed_coros : fr[f].st = "suspended"}

C36_TimersFireWhileWaiting ==
  /\ [][(mpc = "branch" /\ mpc' = "batch" /\ timeout # None)
          => now' <= now + timeout]_vars
  /\ [][(mpc = "branch" /\ mpc' # "branch" /\ Registered = {} /\ timeout # None)
          => (mpc' = "timed" /\ now' = now + timeout /\ ebuf' = ebuf)]_vars
  /\ <>[](PendingSleeps = {})

\* await_suspend of the awaiter of g has not returned yet: it is still
\* starting the inputs.
Starting(g) == \E k \in DOMAIN nstack : nstack[k].g = g

\* C37 (as claimed): for one await of when_all or when_any the combining task
\* is resumed at most once, and not while await_suspend is still starting the
\* inputs.
C37_ResumedOnceAfterStart ==
  \A g \in WhenAlls \cup WhenAnys :
    /\ fr[g].resumed <= 2
    /\ Starting(g) => ~Resumed(g)

\* The helper coroutines of g (when_any_task / when_all_task, one per input).
HelpersOf(g) == {fr[g].tasks[i] : i \in 1..Len(fr[g].tasks)}

\* C38 (as claimed): once a when_any has returned to its parent, an input
\* that lost and completes later resumes neither the when_any again nor one
\* of its helper frames, which were destroyed when the when_any finished, and
\* the delivered result stays.
C38_LoserLeavesFinishedWhenAny ==
  /\ [](\A g \in WhenAnys :
         Completed(g) =>
           /\ fr[g].resumed <= 2
           /\ ~(/\ ub \in {"resume_done", "resume_destroyed"}
                /\ hist.badResume \in HelpersOf(g) \cup {g}))
  /\ [][\A g \in WhenAnys :
         Completed(g) => (fr'[g].exit = fr[g].exit /\ fr'[g].gindex = fr[g].gindex)]_vars

\* C39 (as claimed): no entry of the batch that the loop of
\* EpollScheduler::run comes to belongs to a frame that was destroyed by an
\* earlier resumption of the same batch: such a task is neither written to
\* (set_resume_events) nor resumed.
C39_BatchSkipsDestroyed ==
  [][(Native("batch") /\ ei <= Len(ebuf) /\ ei' = ei + 1)
       => /\ fr[ebuf[ei].ptr].st # "destroyed"
          /\ ub' # "write_destroyed"]_vars

\* C40 (as claimed): route(name, path, handler) returns; for a name of a valid
\* method it leaves the router as route(http_method(name), path, handler)
\* does, with the same outcome, and for an unknown name it fails and leaves
\* the router as it was.
C40_RouteByNameIsRoute ==
  [][(router.on /\ router'.op.fn = "route_sv" /\ router' # router) =>
       IF router'.op.method = INVALID
       THEN /\ router'.op.threw = "invalid HTTP method"
            /\ router'.root = router.root /\ router'.log = router.log
       ELSE \E uri \in Uris :
              LET r == route(router.root, router'.op.method, uri,
                             router'.op.handler)
              IN  router'.root = r.root /\ router'.op.threw = r.threw]_vars
====
